---------------------------- MODULE Spec2Model ----------------------------
(***************************************************************************)
(* A model of the SystemVerilog-to-pyvsc constraint translator             *)
(* (src/sv_to_pyvsc.py, class PyVSCGenerator).                             *)
(*                                                                         *)
(* Text is a sequence of one-character strings, so that the character      *)
(* scans of the source (depth counters, keyword boundary checks, regular   *)
(* expressions) are modelled character by character.  Helper operators     *)
(* that take positions use Python's 0-based positions, so that each        *)
(* definition reads like the code it models.                               *)
(***************************************************************************)
EXTENDS Integers, Sequences, FiniteSets, TLC

VARIABLES pc,          \* position of the run: "input", then the operation applied
          body,        \* the source text handed to the operation
          statements,  \* the list returned by _split_statements
          lines,       \* the emitted lines
          review,      \* PyVSCGenerator.manual_review_items
          enum_value_map,    \* PyVSCGenerator.enum_value_map: member name -> class name
          enum_class_names,  \* PyVSCGenerator.enum_class_names
          fields,      \* the list of SVField returned by SVParser._extract_fields
          warnings,    \* PyVSCGenerator.warnings
          classes,        \* SVParser.classes
          mapping_notes,  \* PyVSCGenerator.mapping_notes
          statistics,     \* PyVSCGenerator.statistics
          result,         \* what translate_code gave its caller: None until it
                          \* returns, Some(TranslationResult), or the exception raised
          caller,         \* "main" for a run of the command line, "library" for
                          \* a program that calls translate_code itself
          input_file,     \* the file at args.input: None if there is none, Some(text),
                          \* or the error that reading it raises
          output_path,    \* args.output
          output_file,    \* the file at args.output: None if there is none, Some(text)
          stdout,         \* the lines printed to sys.stdout
          stderr,         \* the lines printed to sys.stderr
          exit_code,      \* None while the process runs, Some(status) after it
          expected,       \* kept by a library caller: the first document it had
                          \* translated by its translator, with the result
          previous,       \* kept by a library caller: the document of its last call
          set_order,      \* the order in which the sets of names that the process
                          \* has built are iterated: fixed by the hashes of the
                          \* names, which the process draws when it starts
          steps,          \* ConsoleRunner.steps
          step_results,   \* the list results of ConsoleRunner.run
          called,         \* the steps whose runner ConsoleRunner.run has called
          files,          \* the files of the pipeline that exist
          input_type,     \* ConsoleRunner.input_type
          hw_field_path,  \* ConsoleRunner.hw_field_path
          pyvsc_class_name,  \* ConsoleRunner.class_name
          vector,         \* the vector given to patch_vector_with_overrides
          overrides,      \* the overrides given to the functions of
                          \* param_override.py: the OverrideSpec entries of the
                          \* dict, in its order
          patched,        \* what patch_vector_with_overrides returns
          sv_file,        \* the file at sv_path: None if there is none, Some(text)
          bak_file,       \* the file at sv_path + ".bak", likewise
          backup,         \* the argument backup of apply_overrides_to_sv_file
          linesep,        \* os.linesep of the platform
          sv_lines,       \* lines of apply_overrides_to_sv_file
          out_lines,      \* out_lines of apply_overrides_to_sv_file
          counts,         \* what apply_overrides_to_sv_file returns or raises
          num_runs,       \* args.num_runs of generate_test_vectors.py
          num_jobs,       \* num_jobs of main
          format,     \* args.format
          top_overrides,  \* top_overrides of main, as overrides above
          worker_args,    \* the run ids of worker_args that no worker of the
                          \* pool has taken yet
          running,        \* the run ids that the workers of the pool work on
          outqueue,       \* what the workers have returned and main has not
                          \* yet received, in the order of the returns
          returned,       \* what _randomize_worker returned for each run id
          vectors,        \* vectors of main
          successful,     \* successful of main
          field_stats,    \* field_stats[name].values of main
          txt_files       \* the files <prefix>_<run_id>.txt of the output
                          \* directory: their lines

\* the state of the programs around the translator, and what it is while
\* none of them runs
console == <<steps, step_results, called, files, input_type, hw_field_path, pyvsc_class_name>>
overriding ==
    <<vector, overrides, patched, sv_file, bak_file, backup, linesep, sv_lines, out_lines,
      counts>>
generating ==
    <<num_runs, num_jobs, format, top_overrides, worker_args, running, outqueue,
      returned, vectors, successful, field_stats, txt_files>>
tools == <<console, overriding, generating>>
NoGenerating ==
    /\ num_runs = 0
    /\ num_jobs = 0
    /\ format = <<>>
    /\ top_overrides = <<>>
    /\ worker_args = <<>>
    /\ running = {}
    /\ outqueue = <<>>
    /\ returned = <<>>
    /\ vectors = <<>>
    /\ successful = 0
    /\ field_stats = <<>>
    /\ txt_files = <<>>
NoOverriding ==
    /\ vector = <<>>
    /\ overrides = <<>>
    /\ patched = <<>>
    /\ sv_file = <<>>
    /\ bak_file = <<>>
    /\ backup = FALSE
    /\ linesep = <<>>
    /\ sv_lines = <<>>
    /\ out_lines = <<>>
    /\ counts = <<>>
NoConsole ==
    /\ steps = <<>>
    /\ step_results = <<>>
    /\ called = <<>>
    /\ files = {}
    /\ input_type = <<>>
    /\ hw_field_path = <<>>
    /\ pyvsc_class_name = <<>>
ToolsInit == NoConsole /\ NoOverriding /\ NoGenerating

\* the state that the translation of a constraint leaves alone, and what it
\* is before anything is parsed
run == <<classes, mapping_notes, statistics, result, caller, input_file, output_path,
         output_file, stdout, stderr, exit_code, expected, previous, set_order, tools>>
\* a translator as its constructor leaves it, and no process around it
RunInit ==
    /\ classes = <<>>
    /\ mapping_notes = <<>>
    /\ statistics = <<>>
    /\ result = <<>>
    /\ caller = "library"
    /\ input_file = <<>>
    /\ output_path = <<>>
    /\ output_file = <<>>
    /\ stdout = <<>>
    /\ stderr = <<>>
    /\ exit_code = <<>>
    /\ expected = <<>>
    /\ previous = <<>>
    /\ set_order = <<>>
    /\ ToolsInit
others == <<fields, warnings, run>>
OthersInit == fields = <<>> /\ warnings = <<>> /\ RunInit

vars == <<pc, body, statements, lines, review, enum_value_map, enum_class_names, others>>

(***************************************************************************)
(* Characters and Python's str methods                                     *)
(***************************************************************************)
Lower == {"a","b","c","d","e","f","g","h","i","j","k","l","m",
          "n","o","p","q","r","s","t","u","v","w","x","y","z"}
Upper == {"A","B","C","D","E","F","G","H","I","J","K","L","M",
          "N","O","P","Q","R","S","T","U","V","W","X","Y","Z"}
Digit == {"0","1","2","3","4","5","6","7","8","9"}

isalnum(c) == c \in Lower \cup Upper \cup Digit
\* the characters of str.isspace and of the classes \s, \w and \d
SpaceCh == {" ", "\t", "\n", "\r"}
WordCh == Lower \cup Upper \cup Digit \cup {"_"}
isspace(c) == c \in SpaceCh
IsW(c) == c \in WordCh
IsD(c) == c \in Digit

Min(a, b) == IF a < b THEN a ELSE b
Max(a, b) == IF a > b THEN a ELSE b

\* s[a:b] and s[a:] with 0 <= a
Slice(s, a, b) == SubSeq(s, a + 1, Min(b, Len(s)))
From(s, a) == SubSeq(s, a + 1, Len(s))
\* s[i], 0-based, for 0 <= i < len(s)
At(s, i) == s[i + 1]

startswith(s, p) == Len(s) >= Len(p) /\ SubSeq(s, 1, Len(p)) = p
endswith(s, p) == Len(s) >= Len(p) /\ SubSeq(s, Len(s) - Len(p) + 1, Len(s)) = p
\* s[i:i+len(p)] == p
HasAt(s, i, p) == Slice(s, i, i + Len(p)) = p

\* The scans of the source are loops over the characters of a text.  They
\* are written here with bounded quantifiers over the positions instead of
\* one recursive call per character: the least position at which a loop
\* stops, and counts of the characters before a position.

\* a, unless it is the value none that says "no result"; then b
OrElse(a, b, none) == IF a # none THEN a ELSE b

\* the least position of a set of positions, or -1
Least(S) == IF S = {} THEN -1 ELSE CHOOSE k \in S : \A j \in S : k <= j

\* the greatest position of a set of positions, or -1
Greatest(S) == IF S = {} THEN -1 ELSE CHOOSE k \in S : \A j \in S : j <= k

\* the number of characters of s, from position i on, that are in the class S
Span(s, i, S) ==
    LET stops == {k \in i..(Len(s) - 1) : At(s, k) \notin S}
    IN IF stops = {} THEN Max(Len(s) - i, 0) ELSE Least(stops) - i

\* the number of characters of s, from position i on, that are not in S
SpanNot(s, i, S) ==
    LET stops == {k \in i..(Len(s) - 1) : At(s, k) \in S}
    IN IF stops = {} THEN Max(Len(s) - i, 0) ELSE Least(stops) - i

\* the number of trailing characters of s that are in the class S
SpanBack(s, S) ==
    LET stops == {k \in 0..(Len(s) - 1) : At(s, k) \notin S}
    IN IF stops = {} THEN Len(s) ELSE Len(s) - 1 - Greatest(stops)

lstrip(s) == From(s, Span(s, 0, SpaceCh))
rstrip(s) == SubSeq(s, 1, Len(s) - SpanBack(s, SpaceCh))
strip(s) == lstrip(rstrip(s))
\* s.rstrip(';')
rstripSemi(s) == SubSeq(s, 1, Len(s) - SpanBack(s, {";"}))

\* s.find(p, start): the 0-based position of the first occurrence, or -1
find(s, p, start) == Least({k \in start..(Len(s) - Len(p)) : HasAt(s, k, p)})

\* p in s
contains(s, p) == find(s, p, 0) # -1

\* the number of positions k in lo..hi-1 with s[k] = c
Count(s, c, lo, hi) == Cardinality({k \in lo..(hi - 1) : At(s, k) = c})

\* the concatenation of a sequence of texts
RECURSIVE Concat(_)
Concat(ss) == IF ss = <<>> THEN <<>> ELSE Head(ss) \o Concat(Tail(ss))

(***************************************************************************)
(* Literals of the source                                                  *)
(***************************************************************************)
kw_begin == <<"b","e","g","i","n">>
kw_end == <<"e","n","d">>
kw_else == <<"e","l","s","e">>

(***************************************************************************)
(* _split_statements: one left-to-right scan with three depth counters     *)
(***************************************************************************)
\* statements.append(current.strip()) when current.strip() is not empty, as
\* the list of the statements appended: `current` is body[start:i], since
\* every branch of the scan appends to it just the characters it consumes
Flushed(text, start, i) ==
    LET Appended(current) == IF current # <<>> THEN <<current>> ELSE <<>>
    IN Appended(strip(Slice(text, start, i)))

\* the `begin` keyword test of the scan at position i
IsBeginAt(text, i) ==
    /\ HasAt(text, i, kw_begin)
    /\ (i = 0 \/ ~isalnum(At(text, i - 1)))
    /\ (i + 5 >= Len(text) \/ ~isalnum(At(text, i + 5)))

\* the `end` keyword test of the scan at position i
IsEndAt(text, i) ==
    /\ HasAt(text, i, kw_end)
    /\ (i = 0 \/ ~isalnum(At(text, i - 1)))
    /\ (i + 3 >= Len(text) \/ ~isalnum(At(text, i + 3)))

\* the lookahead after a closing `end` or a `;`: body[i:].lstrip().startswith('else')
ElseFollows(text, i) == startswith(lstrip(From(text, i)), kw_else)

\* the lookahead after a closing brace, which skips one `;`
ElseFollowsBrace(text, i) ==
    LET Skipped(remaining) == IF startswith(remaining, <<";">>)
                              THEN lstrip(From(remaining, 1)) ELSE remaining
    IN startswith(Skipped(lstrip(From(text, i))), kw_else)

\* The scan keeps brace_depth, paren_depth and begin_depth.  A keyword match
\* consumes the keyword whole, and no keyword match starts inside another, so
\* after the scan has consumed the characters before position p the counters
\* are the counts of what stands before p.
brace_depth(text, p) == Count(text, "{", 0, p) - Count(text, "}", 0, p)
paren_depth(text, p) == Count(text, "(", 0, p) - Count(text, ")", 0, p)
begin_depth(text, p) ==
    Cardinality({k \in 0..(p - 1) : IsBeginAt(text, k)})
    - Cardinality({k \in 0..(p - 1) : IsEndAt(text, k)})
AllZero(text, p) ==
    brace_depth(text, p) = 0 /\ paren_depth(text, p) = 0 /\ begin_depth(text, p) = 0

\* the scan ends a statement just before position p: after an `end`, a `}`
\* or a `;` that leaves all three counters at zero and that the keyword
\* `else` does not follow
EndsStatementAt(text, p) ==
    \/ p >= 3 /\ IsEndAt(text, p - 3) /\ AllZero(text, p) /\ ~ElseFollows(text, p)
    \/ p >= 1 /\ At(text, p - 1) = "}" /\ AllZero(text, p) /\ ~ElseFollowsBrace(text, p)
    \/ p >= 1 /\ At(text, p - 1) = ";" /\ AllZero(text, p - 1) /\ ~ElseFollows(text, p)

\* the scan without the flush behind its loop: what is accumulated at the end
\* of the input is discarded
RECURSIVE SplitLoopDiscarding(_, _)
SplitLoopDiscarding(text, start) ==
    LET After(p) == IF p = -1 THEN <<>>
                   ELSE Flushed(text, start, p) \o SplitLoopDiscarding(text, p)
    IN After(Least({k \in (start + 1)..Len(text) : EndsStatementAt(text, k)}))

\* the statements appended from position start on, start being the position
\* after the last statement end
RECURSIVE SplitLoop(_, _)
SplitLoop(text, start) ==
    LET After(p) == IF p = -1 THEN Flushed(text, start, Len(text))
                   ELSE Flushed(text, start, p) \o SplitLoop(text, p)
    IN After(Least({k \in (start + 1)..Len(text) : EndsStatementAt(text, k)}))

_split_statements(text) == SplitLoop(text, 0)

(***************************************************************************)
(* Regular expressions.  Each pattern of the source is matched by a chain  *)
(* of positions: every step takes the position reached so far, or -1 once  *)
(* the match has failed, and gives the position after its part of the      *)
(* pattern.  The greedy classes below never need to give characters back,  *)
(* because what follows them in the patterns of the source starts with a   *)
(* character outside the class.                                            *)
(***************************************************************************)
\* a literal
Lit(s, i, p) == IF i # -1 /\ HasAt(s, i, p) THEN i + Len(p) ELSE -1
\* an optional literal, p?
Opt(s, i, p) == IF i = -1 THEN -1 ELSE IF HasAt(s, i, p) THEN i + Len(p) ELSE i
\* [S]* and [S]+
Star(s, i, S) == IF i = -1 THEN -1 ELSE i + Span(s, i, S)
AtLeastOne(i, n) == IF n = 0 THEN -1 ELSE i + n
Plus(s, i, S) == IF i = -1 THEN -1 ELSE AtLeastOne(i, Span(s, i, S))
\* [^S]+
PlusNot(s, i, S) == IF i = -1 THEN -1 ELSE AtLeastOne(i, SpanNot(s, i, S))

\* Optional results: None, or Some(v)
None == <<>>
Some(v) == <<v>>

\* ', '.join(parts)
RECURSIVE join(_, _)
join(sep, parts) ==
    IF parts = <<>> THEN <<>>
    ELSE IF Len(parts) = 1 THEN parts[1]
    ELSE parts[1] \o sep \o join(sep, Tail(parts))

(***************************************************************************)
(* _convert_numbers                                                        *)
(***************************************************************************)
HexCh == Digit \cup {"a","b","c","d","e","f","A","B","C","D","E","F","_"}
BaseCh == {"h","H","b","B","d","D","o","O"}

\* the end of a match of (\d+)'([hHbBdDoO])([0-9a-fA-F_]+) at position i, or -1
NumberEnd(s, i) ==
    LET Base(p2) == IF p2 # -1 /\ p2 < Len(s) /\ At(s, p2) \in BaseCh THEN p2 + 1 ELSE -1
    IN Plus(s, Base(Lit(s, Plus(s, i, Digit), <<"'">>)), HexCh)

\* prefix_map.get(base_char, '') for the lower-cased base character
prefix_map(c) ==
    IF c \in {"h","H"} THEN <<"0","x">>
    ELSE IF c \in {"b","B"} THEN <<"0","b">>
    ELSE IF c \in {"o","O"} THEN <<"0","o">>
    ELSE <<>>

\* s.replace(c, '')
Without(s, c) ==
    LET keep == {k \in 1..Len(s) : s[k] # c}
        nth(n) == CHOOSE k \in keep : Cardinality({j \in keep : j < k}) = n - 1
    IN [n \in 1..Cardinality(keep) |-> s[nth(n)]]

\* replace_num for the match of s at i that ends at e
replace_num(s, i, e) ==
    LET Converted(q) == prefix_map(At(s, q + 1)) \o Without(Slice(s, q + 2, e), "_")
    IN Converted(i + Span(s, i, Digit))      \* q: the position of the quote

\* re.sub over the text from position start on
RECURSIVE ConvertNumbersFrom(_, _)
ConvertNumbersFrom(s, start) ==
    LET Match(i, e) == Slice(s, start, i) \o replace_num(s, i, e) \o ConvertNumbersFrom(s, e)
        First(i) == IF i = -1 THEN From(s, start) ELSE Match(i, NumberEnd(s, i))
    IN IF start >= Len(s) THEN <<>>
       ELSE First(Least({k \in start..(Len(s) - 1) : NumberEnd(s, k) # -1}))

_convert_numbers(expr) == ConvertNumbersFrom(expr, 0)

(***************************************************************************)
(* _parse_inside_items and _translate_inside                               *)
(***************************************************************************)
\* bracket_depth before position p
bracket_depth(s, p) == Count(s, "[", 0, p) - Count(s, "]", 0, p)

\* a comma at which the scan splits
IsItemComma(s, k) == At(s, k) = "," /\ bracket_depth(s, k) = 0

\* the items from position start on
RECURSIVE InsideItemsFrom(_, _)
InsideItemsFrom(s, start) ==
    LET Last(current) == IF current # <<>> THEN <<current>> ELSE <<>>
        Split(c) == IF c = -1 THEN Last(strip(From(s, start)))
                    ELSE <<strip(Slice(s, start, c))>> \o InsideItemsFrom(s, c + 1)
    IN Split(Least({k \in start..(Len(s) - 1) : IsItemComma(s, k)}))

_parse_inside_items(s) == InsideItemsFrom(s, 0)

\* re.match(r'\[(.+?):(.+?)\]', item): the positions <<k1, k2>> of the `:` and
\* the `]` that the two lazy groups stop at, or None
RangeMatch(item) ==
    LET nl(a, b) == \E j \in a..b : At(item, j) = "\n"
        close(k1) == Least({k \in (k1 + 2)..(Len(item) - 1) :
                              At(item, k) = "]" /\ ~nl(k1 + 1, k - 1)})
        Groups(k1) == IF startswith(item, <<"[">>) /\ k1 # -1
                      THEN Some(<<k1, close(k1)>>) ELSE None
    IN Groups(Least({k \in 2..(Len(item) - 1) :
                       At(item, k) = ":" /\ ~nl(1, k - 1) /\ close(k) # -1}))

\* one argument of the rangelist
InsideArg(item0) ==
    LET item == strip(item0)
        rm == RangeMatch(item)
    IN IF rm # None
       THEN <<"v","s","c",".","r","n","g","(">> \o _convert_numbers(strip(Slice(item, 1, rm[1][1]))) \o <<","," ">>
            \o _convert_numbers(strip(Slice(item, rm[1][1] + 1, rm[1][2]))) \o <<")">>
       ELSE _convert_numbers(item)

\* _translate_inside without the test for a bracketed item
_translate_inside_without_ranges(inside_body) ==
    LET items == _parse_inside_items(inside_body)
    IN join(<<","," ">>, [k \in 1..Len(items) |-> _convert_numbers(strip(items[k]))])

_translate_inside(inside_body) ==
    LET items == _parse_inside_items(inside_body)
    IN join(<<","," ">>, [k \in 1..Len(items) |-> InsideArg(items[k])])

(***************************************************************************)
(* The expression rewrite pipeline of _translate_expression                *)
(***************************************************************************)
\* s.replace(old, new) and re.sub of a literal: occurrences left to right,
\* not overlapping
RECURSIVE ReplaceFrom(_, _, _, _)
ReplaceFrom(s, start, old, new) ==
    LET First(i) == IF i = -1 THEN From(s, start)
                    ELSE Slice(s, start, i) \o new \o ReplaceFrom(s, i + Len(old), old, new)
    IN IF start >= Len(s) THEN <<>> ELSE First(find(s, old, start))

replace(s, old, new) == ReplaceFrom(s, 0, old, new)

\* re.sub(r'!\s*\(', '~(', expr)
RECURSIVE SubNotParenFrom(_, _)
SubNotParenFrom(s, start) ==
    LET e(k) == Lit(s, Star(s, Lit(s, k, <<"!">>), SpaceCh), <<"(">>)
        First(i) == IF i = -1 THEN From(s, start)
                    ELSE Slice(s, start, i) \o <<"~","(">> \o SubNotParenFrom(s, e(i))
    IN IF start >= Len(s) THEN <<>>
       ELSE First(Least({k \in start..(Len(s) - 1) : e(k) # -1}))

\* re.sub(r'!(?!=)(\w)', r'~\1', expr): only the `!` is rewritten
SubNotWord(s) ==
    [k \in 1..Len(s) |->
        IF s[k] = "!" /\ k < Len(s) /\ s[k + 1] \in WordCh THEN "~" ELSE s[k]]

_convert_logical_operators(expr) ==
    SubNotWord(SubNotParenFrom(replace(replace(expr, <<"&","&">>, <<"&">>), <<"|","|">>, <<"|">>), 0))

\* the end of a match of (\w+)\s+inside\s*\{([^}]+)\} at position i, or -1
InsideEnd(s, i) ==
    Lit(s, PlusNot(s, Lit(s, Star(s, Lit(s, Plus(s, Plus(s, i, WordCh), SpaceCh), <<"i","n","s","i","d","e">>),
                                  SpaceCh), <<"{">>),
                   {"}"}),
        <<"}">>)

\* replace_inside for the match of s at i that ends at e
replace_inside(s, i, e) ==
    LET p1 == Plus(s, i, WordCh)
    IN Slice(s, i, p1) \o <<" ","i","n"," ","v","s","c",".","r","a","n","g","e","l","i","s","t","(">>
       \o _translate_inside(Slice(s, find(s, <<"{">>, p1) + 1, e - 1)) \o <<")">>

RECURSIVE ConvertInsideFrom(_, _)
ConvertInsideFrom(s, start) ==
    LET i == Least({k \in start..(Len(s) - 1) : InsideEnd(s, k) # -1})
    IN IF start >= Len(s) THEN <<>>
       ELSE IF i = -1 THEN From(s, start)
       ELSE Slice(s, start, i) \o replace_inside(s, i, InsideEnd(s, i))
            \o ConvertInsideFrom(s, InsideEnd(s, i))

_convert_inside_expression(expr) == ConvertInsideFrom(expr, 0)

\* _convert_bit_slicing leaves the expression as it is
_convert_bit_slicing(expr) == expr

PYTHON_KEYWORDS ==
    {<<"i","f">>, <<"e","l","s","e">>, <<"f","o","r">>, <<"w","h","i","l","e">>, <<"i","n">>, <<"n","o","t">>, <<"a","n","d">>, <<"o","r">>,
     <<"T","r","u","e">>, <<"F","a","l","s","e">>, <<"N","o","n","e">>, <<"p","a","s","s">>, <<"b","r","e","a","k">>, <<"c","o","n","t","i","n","u","e">>, <<"r","e","t","u","r","n">>,
     <<"i","n","s","i","d","e">>, <<"d","i","s","t">>, <<"s","o","l","v","e">>, <<"b","e","f","o","r","e">>, <<"s","o","f","t">>, <<"u","n","i","q","u","e">>, <<"f","o","r","e","a","c","h">>,
     <<"v","s","c">>, <<"s","e","l","f">>, <<"w","i","t","h">>, <<"a","s">>, <<"b","e","g","i","n">>, <<"e","n","d">>}

\* The matches of \b<word>\b in a text are its maximal runs of word
\* characters (a shorter match would end or start between two word
\* characters, where \b does not hold).  WordSub rewrites the runs of s from
\* position start on: a run that starts at i and ends before e becomes
\* Rep(i, e), everything else is copied.
WordStart(s, k) == At(s, k) \in WordCh /\ (k = 0 \/ At(s, k - 1) \notin WordCh)

\* _qualify_enum_values: the pattern \b[A-Z][A-Z0-9_]*\b
EnumShaped(w) == w # <<>> /\ w[1] \in Upper
                 /\ \A k \in 1..Len(w) : w[k] \in Upper \cup Digit \cup {"_"}

replace_enum(s, i, e) ==
    LET Qualified(name) ==
            IF ~EnumShaped(name) THEN name
            ELSE IF name \notin DOMAIN enum_value_map THEN name
            ELSE IF i > 0 /\ At(s, i - 1) = "." THEN name
            ELSE enum_value_map[name] \o <<".">> \o name
    IN Qualified(Slice(s, i, e))

\* the text between lo and hi, cut at a word start near its middle while it
\* has one behind lo
RECURSIVE QualifyBetween(_, _, _)
QualifyBetween(s, lo, hi) ==
    LET behind == Least({k \in Max(lo + 1, (lo + hi) \div 2)..(hi - 1) : WordStart(s, k)})
        c == IF behind # -1 THEN behind
             ELSE Greatest({k \in (lo + 1)..(((lo + hi) \div 2) - 1) : WordStart(s, k)})
    IN IF c # -1 THEN QualifyBetween(s, lo, c) \o QualifyBetween(s, c, hi)
       ELSE IF lo < hi /\ WordStart(s, lo)
       THEN replace_enum(s, lo, lo + Span(s, lo, WordCh)) \o Slice(s, lo + Span(s, lo, WordCh), hi)
       ELSE Slice(s, lo, hi)

QualifyFrom(s, start) == QualifyBetween(s, start, Len(s))

_qualify_enum_values(expr) ==
    IF DOMAIN enum_value_map = {} THEN expr ELSE QualifyFrom(expr, 0)

\* _add_self_prefix: the pattern \b([a-zA-Z_][a-zA-Z0-9_]*)\b
replace_var(s, i, e) ==
    LET Prefixed(word) ==
            IF At(s, i) \in Digit THEN word
            ELSE IF word \in PYTHON_KEYWORDS THEN word
            ELSE IF i > 0 /\ At(s, i - 1) = "." THEN word
            ELSE IF word \in enum_class_names /\ e < Len(s) /\ At(s, e) = "." THEN word
            ELSE <<"s","e","l","f",".">> \o word
    IN Prefixed(Slice(s, i, e))

\* the text between lo and hi, cut at a word start near its middle while it
\* has one behind lo
RECURSIVE PrefixBetween(_, _, _)
PrefixBetween(s, lo, hi) ==
    LET behind == Least({k \in Max(lo + 1, (lo + hi) \div 2)..(hi - 1) : WordStart(s, k)})
        c == IF behind # -1 THEN behind
             ELSE Greatest({k \in (lo + 1)..(((lo + hi) \div 2) - 1) : WordStart(s, k)})
    IN IF c # -1 THEN PrefixBetween(s, lo, c) \o PrefixBetween(s, c, hi)
       ELSE IF lo < hi /\ WordStart(s, lo)
       THEN replace_var(s, lo, lo + Span(s, lo, WordCh)) \o Slice(s, lo + Span(s, lo, WordCh), hi)
       ELSE Slice(s, lo, hi)

PrefixFrom(s, start) == PrefixBetween(s, start, Len(s))

\* re.sub(r'self\.(vsc)\b', r'\1', result)
RECURSIVE SubSelfVscFrom(_, _)
SubSelfVscFrom(s, start) ==
    LET hit(k) == HasAt(s, k, <<"s","e","l","f",".","v","s","c">>)
                  /\ (k + 8 >= Len(s) \/ At(s, k + 8) \notin WordCh)
        First(i) == IF i = -1 THEN From(s, start)
                    ELSE Slice(s, start, i) \o <<"v","s","c">> \o SubSelfVscFrom(s, i + 8)
    IN IF start >= Len(s) THEN <<>>
       ELSE First(Least({k \in start..(Len(s) - 1) : hit(k)}))

_add_self_prefix(expr) ==
    SubSelfVscFrom(replace(PrefixFrom(expr, 0), <<"s","e","l","f",".","s","e","l","f",".">>, <<"s","e","l","f",".">>), 0)

\* re.match(r'^(self\.\w+)$', t): t is self.<word> and nothing else
IsSelfVar(t) == Lit(t, Plus(t, Lit(t, 0, <<"s","e","l","f",".">>), WordCh), <<>>) = Len(t)

_convert_bare_conditions(expr) ==
    LET Negated(t, var) ==
            IF startswith(t, <<"~">>) /\ IsSelfVar(var) THEN <<"(">> \o var \o <<" ","=","="," ","0",")">>
            ELSE IF IsSelfVar(t) THEN <<"(">> \o t \o <<" ","!","="," ","0",")">>
            ELSE expr
        Bare(t) == Negated(t, IF startswith(t, <<"~">>)
                              THEN From(t, 1 + Span(t, 1, SpaceCh)) ELSE <<>>)
        rangelist == contains(expr, <<" ","i","n"," ","v","s","c",".","r","a","n","g","e","l","i","s","t">>)
    IN IF \E op \in {<<"=","=">>, <<"!","=">>, <<"<">>, <<">">>, <<"<","=">>, <<">","=">>} : contains(expr, op)
           THEN expr
       ELSE IF contains(expr, <<"v","s","c",".">>) /\ ~rangelist THEN expr
       ELSE IF rangelist THEN expr
       ELSE Bare(strip(expr))

_translate_expression(expr) ==
    IF expr = <<>> THEN <<>>
    ELSE CHOOSE translated \in
             {_convert_bare_conditions(prefixed) : prefixed \in
             {_add_self_prefix(qualified) : qualified \in
             {_qualify_enum_values(sliced) : sliced \in
             {_convert_bit_slicing(inside) : inside \in
             {_convert_inside_expression(logical) : logical \in
             {_convert_logical_operators(numbers) : numbers \in
             {_convert_numbers(expr)}}}}}}} : TRUE

(***************************************************************************)
(* The statement matchers of _translate_statement.  Each gives None when   *)
(* its pattern does not match the statement, and Some(lines) when it does. *)
(***************************************************************************)
INDENT == <<" "," "," "," ">>

\* the position after the first newline-free run of the text from k on: where
\* a greedy (.+) that starts at k ends
DotEnd(s, k) == k + SpanNot(s, k, {"\n"})

\* \s*(.+) or \s+(.+) at position i (least is 0 or 1): the whitespace is
\* greedy and gives characters back until the group has one to start with;
\* the position the group starts at, or -1
SpaceThenDot(s, i, least) ==
    IF i = -1 THEN -1
    ELSE Greatest({k \in (i + least)..(Min(i + Span(s, i, SpaceCh), Len(s) - 1)) : At(s, k) # "\n"})

\* (.+?) followed by a pattern: the group ends at the least of these
\* positions at which the rest of the pattern matches; the positions k >= 1
\* with no newline before them
LazyEnds(s) == {k \in 1..(Len(s) - 1) : \A j \in 0..(k - 1) : At(s, j) # "\n"}

\* s.split(sep) for a separator of one character: the parts of s between
\* the positions lo and hi.  The text is cut first at the separator nearest
\* to its middle, so that the depth of the evaluation grows with the
\* logarithm of the number of parts.
RECURSIVE SplitBetween(_, _, _, _)
SplitBetween(s, sep, lo, hi) ==
    LET behind == Least({k \in ((lo + hi) \div 2)..(hi - 1) : HasAt(s, k, sep)})
        c == IF behind # -1 THEN behind
             ELSE Greatest({k \in lo..(((lo + hi) \div 2) - 1) : HasAt(s, k, sep)})
    IN IF c = -1 THEN <<Slice(s, lo, hi)>>
       ELSE SplitBetween(s, sep, lo, c) \o SplitBetween(s, sep, c + 1, hi)

split(s, sep) == SplitBetween(s, sep, 0, Len(s))

\* solve\s+(\w+)\s+before\s+(\w+)
_try_solve_order(stmt) ==
    LET p1 == Plus(stmt, Lit(stmt, 0, <<"s","o","l","v","e">>), SpaceCh)
        p2 == Plus(stmt, p1, WordCh)
        p3 == Plus(stmt, Lit(stmt, Plus(stmt, p2, SpaceCh), <<"b","e","f","o","r","e">>), SpaceCh)
        p4 == Plus(stmt, p3, WordCh)
    IN IF p4 = -1 THEN None
       ELSE Some(<<<<"v","s","c",".","s","o","l","v","e","_","o","r","d","e","r","(","s","e","l","f",".">> \o Slice(stmt, p1, p2) \o <<","," ","s","e","l","f",".">>
                   \o Slice(stmt, p3, p4) \o <<")">>>>)

\* soft\s+(.+)
_try_soft(stmt) ==
    LET g == SpaceThenDot(stmt, Lit(stmt, 0, <<"s","o","f","t">>), 1)
    IN IF g = -1 THEN None
       ELSE Some(<<<<"v","s","c",".","s","o","f","t","(">> \o _translate_expression(Slice(stmt, g, DotEnd(stmt, g)))
                   \o <<")">>>>)

\* unique\s*\{([^}]+)\}
_try_unique(stmt) ==
    LET p1 == Lit(stmt, Star(stmt, Lit(stmt, 0, <<"u","n","i","q","u","e">>), SpaceCh), <<"{">>)
        p2 == PlusNot(stmt, p1, {"}"})
        items == strip(Slice(stmt, p1, p2))
        vs == split(items, <<",">>)
    IN IF Lit(stmt, p2, <<"}">>) = -1 THEN None
       ELSE IF contains(items, <<",">>)
       THEN Some(<<<<"v","s","c",".","u","n","i","q","u","e","(">>
                   \o join(<<","," ">>, [k \in 1..Len(vs) |-> <<"s","e","l","f",".">> \o strip(vs[k])])
                   \o <<")">>>>)
       ELSE Some(<<<<"v","s","c",".","u","n","i","q","u","e","(","s","e","l","f",".">> \o strip(items) \o <<")">>>>)

\* the weight appended for an entry that matched with the groups val_part
\* and weight
Weight(val_part, weight, range_mode) ==
    LET rng_match == RangeMatch(strip(val_part))
    IN IF rng_match # None
       THEN <<"v","s","c",".","w","e","i","g","h","t","(","v","s","c",".","r","n","g","(">>
            \o _convert_numbers(strip(Slice(strip(val_part), 1, rng_match[1][1]))) \o <<","," ">>
            \o _convert_numbers(strip(Slice(strip(val_part), rng_match[1][1] + 1,
                                            rng_match[1][2])))
            \o <<")",","," ">> \o weight \o (IF range_mode THEN <<","," ","'","r","a","n","g","e","'">> ELSE <<>>) \o <<")">>
       ELSE <<"v","s","c",".","w","e","i","g","h","t","(">> \o _convert_numbers(strip(val_part)) \o <<","," ">> \o weight \o <<")">>

\* one entry of a dist body: (.+?)\s*:=\s*(\d+), then (.+?)\s*:/\s*(\d+)
DistWeight(item) ==
    LET rest(k, op) == Plus(item, Star(item, Lit(item, Star(item, k, SpaceCh), op), SpaceCh),
                            Digit)
        k1 == Least({k \in LazyEnds(item) : rest(k, <<":","=">>) # -1})
        k2 == Least({k \in LazyEnds(item) : rest(k, <<":","/">>) # -1})
        range_mode == k1 = -1
        k == IF range_mode THEN k2 ELSE k1
        e == rest(k, IF range_mode THEN <<":","/">> ELSE <<":","=">>)
        Digits(end) == Slice(item, end - SpanBack(Slice(item, 0, end), Digit), end)
    IN IF k1 = -1 /\ k2 = -1 THEN None
       ELSE Some(Weight(Slice(item, 0, k), Digits(e), range_mode))

\* the lines of the weights of the entries
RECURSIVE DistLines(_)
DistLines(items) ==
    LET Line(item, w) == IF item = <<>> \/ w = None THEN <<>> ELSE <<INDENT \o w[1] \o <<",">>>>
    IN IF items = <<>> THEN <<>>
       ELSE Line(strip(Head(items)), DistWeight(strip(Head(items)))) \o DistLines(Tail(items))

_translate_distribution(var_name, dist_body) ==
    <<<<"v","s","c",".","d","i","s","t","(","s","e","l","f",".">> \o var_name \o <<","," ","[">>>>
    \o DistLines(split(dist_body, <<",">>))
    \o <<<<"]",")">>>>

\* the position of the last `}` of the statement, when a greedy DOTALL (.+)
\* that starts at position open can end before it; or -1
LastBrace(stmt, open) ==
    IF open = -1 THEN -1
    ELSE Greatest({k \in (open + 1)..(Len(stmt) - 1) : At(stmt, k) = "}"})

\* (\w+)\s+dist\s*\{(.+)\}
_try_distribution(stmt) ==
    LET p1 == Plus(stmt, 0, WordCh)
        p2 == Lit(stmt, Star(stmt, Lit(stmt, Plus(stmt, p1, SpaceCh), <<"d","i","s","t">>), SpaceCh), <<"{">>)
        close == LastBrace(stmt, p2)
    IN IF close = -1 THEN None
       ELSE Some(_translate_distribution(Slice(stmt, 0, p1), Slice(stmt, p2, close)))

\* the position i when the literal p stands there, or -1
Before(s, i, p) == IF Lit(s, i, p) = -1 THEN -1 ELSE i

\* \s+inside\s*\{([^}]+)\} at position i: the position of the closing brace,
\* or -1
InsideClose(stmt, i) ==
    IF i = -1 THEN -1
    ELSE Before(stmt,
                PlusNot(stmt, Lit(stmt, Star(stmt, Lit(stmt, Plus(stmt, i, SpaceCh),
                                                        <<"i","n","s","i","d","e">>),
                                             SpaceCh), <<"{">>),
                        {"}"}),
                <<"}">>)

\* \[(\d+):(\d+)\] at position i: the position after it, or -1
BitSlice(stmt, i) ==
    IF i = -1 THEN -1
    ELSE Lit(stmt, Plus(stmt, Lit(stmt, Plus(stmt, Lit(stmt, i, <<"[">>), Digit), <<":">>), Digit),
             <<"]">>)

\* f"self.{var} in vsc.rangelist({rangelist})" for a match whose inside part
\* starts at position e and has its closing brace at position close: var is
\* the variable as the line shows it, and the group ([^}]+) is what stands
\* between the first opening brace after e and the closing one
InsideLine(stmt, var, e, close) ==
    <<"s","e","l","f",".">> \o var \o <<" ","i","n"," ","v","s","c",".","r","a","n","g","e","l","i","s","t","(">>
    \o _translate_inside(Slice(stmt, find(stmt, <<"{">>, e) + 1, close)) \o <<")">>

\* (\w+)\[(\d+):(\d+)\]\s+inside\s*\{([^}]+)\}, then
\* (\w+(?:\.\w+\(\))?)\s+inside\s*\{([^}]+)\}
_try_inside(stmt) ==
    LET p1 == Plus(stmt, 0, WordCh)
        slice_end == BitSlice(stmt, p1)
        \* the optional (?:\.\w+\(\)) is taken when it matches and the rest
        \* follows; the rest cannot follow where it was not taken
        call == Lit(stmt, Plus(stmt, Lit(stmt, p1, <<".">>), WordCh), <<"(",")">>)
        e == IF call # -1 THEN call ELSE p1
    IN IF InsideClose(stmt, slice_end) # -1
       THEN Some(<<InsideLine(stmt, Slice(stmt, 0, slice_end), slice_end,
                              InsideClose(stmt, slice_end))>>)
       ELSE IF InsideClose(stmt, e) # -1
       THEN Some(<<InsideLine(stmt, replace(Slice(stmt, 0, e), <<".","s","i","z","e","(",")">>, <<".","s","i","z","e">>), e,
                              InsideClose(stmt, e))>>)
       ELSE None

\* !\s*\(?\s*(\w+)\s+inside\s*\{([^}]+)\}\s*\)?
_try_negated_inside(stmt) ==
    LET v == Star(stmt, Opt(stmt, Star(stmt, Lit(stmt, 0, <<"!">>), SpaceCh), <<"(">>), SpaceCh)
        e == Plus(stmt, v, WordCh)
    IN IF InsideClose(stmt, e) = -1 THEN None
       ELSE Some(<<<<"v","s","c",".","n","o","t","_","i","n","s","i","d","e","(","s","e","l","f",".">> \o Slice(stmt, v, e) \o <<","," ","v","s","c",".","r","a","n","g","e","l","i","s","t","(">>
                   \o _translate_inside(Slice(stmt, find(stmt, <<"{">>, e) + 1,
                                              InsideClose(stmt, e)))
                   \o <<")",")">>>>)

\* \s*->\s*\(?\s* at position k: the position after it, or -1
ArrowParen(stmt, k) ==
    Star(stmt, Opt(stmt, Star(stmt, Lit(stmt, Star(stmt, k, SpaceCh), <<"-",">">>), SpaceCh), <<"(">>),
         SpaceCh)

\* the two lines of _try_impl_inside for a match whose antecedent is stmt[0:k]
\* and whose variable, with its bit slice when it has one, is stmt[v:e]
ImplInsideLines(stmt, k, v, e) ==
    <<<<"w","i","t","h"," ","v","s","c",".","i","m","p","l","i","e","s","(">> \o _translate_expression(strip(Slice(stmt, 0, k))) \o <<")",":">>,
      INDENT \o InsideLine(stmt, Slice(stmt, v, e), e, InsideClose(stmt, e))>>

\* (.+?)\s*->\s*\(?\s*(\w+)\[(\d+):(\d+)\]\s+inside\s*\{([^}]+)\}\s*\)?, then
\* (.+?)\s*->\s*\(?\s*(\w+)\s+inside\s*\{([^}]+)\}\s*\)?
_try_impl_inside(stmt) ==
    LET var(k) == ArrowParen(stmt, k)
        var_end(k) == IF var(k) = -1 THEN -1 ELSE Plus(stmt, var(k), WordCh)
        slice_end(k) == BitSlice(stmt, var_end(k))
        k1 == Least({k \in LazyEnds(stmt) : InsideClose(stmt, slice_end(k)) # -1})
        k2 == Least({k \in LazyEnds(stmt) : InsideClose(stmt, var_end(k)) # -1})
    IN IF k1 # -1 THEN Some(ImplInsideLines(stmt, k1, var(k1), slice_end(k1)))
       ELSE IF k2 # -1 THEN Some(ImplInsideLines(stmt, k2, var(k2), var_end(k2)))
       ELSE None

\* _try_implication with the consequent left at the margin of the opener
_try_implication_flat(stmt) ==
    LET g2(k) == SpaceThenDot(stmt, Lit(stmt, Star(stmt, k, SpaceCh), <<"-",">">>), 0)
        k == Least({j \in LazyEnds(stmt) : g2(j) # -1})
        antecedent == strip(Slice(stmt, 0, k))
        consequent == strip(Slice(stmt, g2(k), DotEnd(stmt, g2(k))))
    IN IF k = -1 THEN None
       ELSE Some(<<<<"w","i","t","h"," ","v","s","c",".","i","m","p","l","i","e","s","(">> \o _translate_expression(antecedent) \o <<")",":">>,
                   _translate_expression(consequent)>>)

\* (.+?)\s*->\s*(.+)
_try_implication(stmt) ==
    LET g2(k) == SpaceThenDot(stmt, Lit(stmt, Star(stmt, k, SpaceCh), <<"-",">">>), 0)
        k == Least({j \in LazyEnds(stmt) : g2(j) # -1})
        antecedent == strip(Slice(stmt, 0, k))
        consequent == strip(Slice(stmt, g2(k), DotEnd(stmt, g2(k))))
    IN IF k = -1 THEN None
       ELSE Some(<<<<"w","i","t","h"," ","v","s","c",".","i","m","p","l","i","e","s","(">> \o _translate_expression(antecedent) \o <<")",":">>,
                   INDENT \o _translate_expression(consequent)>>)

\* (\w+)\.size\(\)\s*(==|!=|<|>|<=|>=)\s*(.+): the alternatives are tried in
\* the order written, so `<` and `>` are taken before `<=` and `>=`
_try_array_size(stmt) ==
    LET p1 == Plus(stmt, 0, WordCh)
        p2 == Star(stmt, Lit(stmt, p1, <<".","s","i","z","e","(",")">>), SpaceCh)
        ops == <<<<"=","=">>, <<"!","=">>, <<"<">>, <<">">>, <<"<","=">>, <<">","=">>>>
        g(n) == SpaceThenDot(stmt, Lit(stmt, p2, ops[n]), 0)
        n == Least({j \in 1..6 : g(j) # -1})
    IN IF p2 = -1 \/ n = -1 THEN None
       ELSE Some(<<<<"s","e","l","f",".">> \o Slice(stmt, 0, p1) \o <<".","s","i","z","e"," ">> \o ops[n] \o <<" ">>
                   \o _translate_expression(strip(Slice(stmt, g(n), DotEnd(stmt, g(n)))))>>)

(***************************************************************************)
(* Delimiter matching                                                      *)
(***************************************************************************)
\* the position of the delimiter close that matches the delimiter open at
\* position start, or -1
FindMatching(text, start, open, close) ==
    IF start >= Len(text) \/ At(text, start) # open THEN -1
    ELSE Least({k \in (start + 1)..(Len(text) - 1) : 1 + Count(text, open, start + 1, k + 1)
            - Count(text, close, start + 1, k + 1) = 0})

_find_matching_paren(text, start) == FindMatching(text, start, "(", ")")

_find_matching_brace(text, start) == FindMatching(text, start, "{", "}")

(***************************************************************************)
(* The range shorthand: var >= min && var <= max                           *)
(***************************************************************************)
\* (\w+)\s*<op1>\s*(-?\d+)\s*(?:&&|&)\s*<second>\s*<op2>\s*(-?\d+) matched at
\* the start of s, where <second> is (\w+), or the backreference \1 when
\* same is TRUE; anchored adds the final $.  The groups <<var1, val1, var2,
\* val2>>, or None.
RangePattern(s, op1, op2, same, anchored) ==
    \* each step takes the positions found so far and adds the next one, and
    \* the match ends where a step finds nothing: the first variable ends at
    \* p1, its value is s[v1:p2], the second variable is s[p3:p4] and its
    \* value s[v2:p5]
    LET Groups(p1, v1, p2, p3, p4, v2, p5) ==
            IF p5 = -1 \/ (anchored /\ p5 # Len(s)) THEN None
            ELSE Some(<<Slice(s, 0, p1), Slice(s, v1, p2), Slice(s, p3, p4), Slice(s, v2, p5)>>)
        Val2(p1, v1, p2, p3, p4, v2) ==
            IF v2 = -1 THEN None
            ELSE Groups(p1, v1, p2, p3, p4, v2, Plus(s, Opt(s, v2, <<"-">>), Digit))
        Op2(p1, v1, p2, p3, p4) ==
            IF p4 = -1 THEN None
            ELSE Val2(p1, v1, p2, p3, p4, Star(s, Lit(s, Star(s, p4, SpaceCh), op2), SpaceCh))
        Var2(p1, v1, p2, p3) ==
            IF p3 = -1 THEN None
            ELSE Op2(p1, v1, p2, p3,
                     IF same THEN Lit(s, p3, Slice(s, 0, p1)) ELSE Plus(s, p3, WordCh))
        And(p1, v1, p2, a) ==
            Var2(p1, v1, p2, Star(s, OrElse(Lit(s, a, <<"&","&">>), Lit(s, a, <<"&">>), -1), SpaceCh))
        Val1(p1, v1, p2) == IF p2 = -1 THEN None ELSE And(p1, v1, p2, Star(s, p2, SpaceCh))
        Op1(p1, v1) ==
            IF v1 = -1 THEN None ELSE Val1(p1, v1, Plus(s, Opt(s, v1, <<"-">>), Digit))
        Var1(p1) ==
            IF p1 = -1 THEN None
            ELSE Op1(p1, Star(s, Lit(s, Star(s, p1, SpaceCh), op1), SpaceCh))
    IN Var1(Plus(s, 0, WordCh))

rangelist_line(var, min_val, max_val) ==
    <<"s","e","l","f",".">> \o var \o <<" ","i","n"," ","v","s","c",".","r","a","n","g","e","l","i","s","t","(","v","s","c",".","r","n","g","(">> \o min_val \o <<","," ">> \o max_val \o <<")",")">>

\* the parenthesis depth after the characters s[0..i]
DepthAfter(s, i) == Count(s, "(", 0, i + 1) - Count(s, ")", 0, i + 1)

\* the loop that strips the outer parentheses of _try_range_constraint
RECURSIVE StripOuterParens(_)
StripOuterParens(stripped) ==
    IF startswith(stripped, <<"(">>) /\ endswith(stripped, <<")">>)
       /\ \A i \in 0..(Len(stripped) - 2) : DepthAfter(stripped, i) # 0
    THEN StripOuterParens(strip(Slice(stripped, 1, Len(stripped) - 1)))
    ELSE stripped

\* _try_range_constraint with the groups of the mirrored pattern taken in the
\* order of the first: (var, min, var, max)
_try_range_constraint_unmirrored(stmt) ==
    LET Try(m) == IF m # None /\ m[1][1] = m[1][3]
                  THEN Some(<<rangelist_line(m[1][1], m[1][2], m[1][4])>>) ELSE None
        Both(stripped) ==
            OrElse(Try(RangePattern(stripped, <<">","=">>, <<"<","=">>, FALSE, FALSE)),
                   Try(RangePattern(stripped, <<"<","=">>, <<">","=">>, FALSE, FALSE)), None)
    IN Both(StripOuterParens(strip(stmt)))

\* the two matches of _try_range_constraint in the stripped statement
RangeIn(stripped) ==
    LET SameVar(m) == m # None /\ m[1][1] = m[1][3]
        Try1(m) == IF SameVar(m) THEN Some(<<rangelist_line(m[1][1], m[1][2], m[1][4])>>)
                   ELSE None
        Try2(m) == IF SameVar(m) THEN Some(<<rangelist_line(m[1][1], m[1][4], m[1][2])>>)
                   ELSE None
    IN OrElse(Try1(RangePattern(stripped, <<">","=">>, <<"<","=">>, FALSE, FALSE)),
              Try2(RangePattern(stripped, <<"<","=">>, <<">","=">>, FALSE, FALSE)), None)

_try_range_constraint(stmt) == RangeIn(StripOuterParens(strip(stmt)))

_try_simple_expression(stmt) ==
    LET Lines(expr) == IF strip(expr) # <<>> THEN Some(<<expr>>) ELSE Some(<<>>)
    IN Lines(_translate_expression(stmt))

\* the loop that strips the parentheses of _extract_simple_range_constraint
RECURSIVE StripParenthesized(_)
StripParenthesized(b) ==
    LET inner == Slice(b, 1, Len(b) - 1)
    IN IF startswith(b, <<"(">>) /\ endswith(b, <<")">>)
          /\ (\A i \in 0..(Len(inner) - 1) : DepthAfter(inner, i) >= 0)
          /\ DepthAfter(inner, Len(inner) - 1) = 0
       THEN StripParenthesized(strip(inner))
       ELSE b

\* the rangelist line when the whole constraint body is a simple range, else
\* None
SimpleRangeIn(b) ==
    LET Try1(m) == IF m # None THEN Some(rangelist_line(m[1][1], m[1][2], m[1][4])) ELSE None
        Try2(m) == IF m # None THEN Some(rangelist_line(m[1][1], m[1][4], m[1][2])) ELSE None
    IN OrElse(Try1(RangePattern(b, <<">","=">>, <<"<","=">>, TRUE, TRUE)),
              Try2(RangePattern(b, <<"<","=">>, <<">","=">>, TRUE, TRUE)), None)

_extract_simple_range_constraint(constraint_body) ==
    SimpleRangeIn(StripParenthesized(strip(rstripSemi(strip(constraint_body)))))

(***************************************************************************)
(* The conditional-chain parser                                            *)
(***************************************************************************)
kw_if == <<"i","f">>

\* An operation of the parser gives None, Some(v), or Raised when a str.index
\* call in it finds nothing and raises ValueError.  None has no element and
\* Some(v) has one; Raised is told from them by its two.
Raised == <<"ValueError", "substring not found">>
IsRaised(r) == Len(r) = 2

\* s.index(p, start): the position, or -1 where Python raises ValueError
index(s, p, start) == find(s, p, start)

\* if\s*\( at position i: the position after the parenthesis, or -1
IfParen(s, i) == Lit(s, Star(s, Lit(s, i, kw_if), SpaceCh), <<"(">>)

\* else\s+if\s*\( and else\s*if\s*\( at position i
ElseIfParen(s, i, least) ==
    LET e == Lit(s, i, kw_else)
        sp == IF least = 1 THEN Plus(s, e, SpaceCh) ELSE Star(s, e, SpaceCh)
    IN IfParen(s, sp)

\* else\s*(?!\s*if) at position 0 matches
ElseNotSpaceIf(s) ==
    startswith(s, kw_else) /\ ~HasAt(s, 4 + Span(s, 4, SpaceCh), kw_if)

\* else\s*(?!if) at position i: the whitespace gives one character back when
\* `if` follows it, so only `elseif` fails; the position after the match, -1
ElseNotIf(s, i) ==
    LET e == Lit(s, i, kw_else)
        sp == Span(s, e, SpaceCh)
    IN IF e = -1 THEN -1
       ELSE IF ~HasAt(s, e + sp, kw_if) THEN e + sp
       ELSE IF sp >= 1 THEN e + sp - 1
       ELSE -1

\* the position of the last character of the `end` that matches the `begin`
\* at position start, or -1
_find_matching_begin_end(text, start) ==
    LET depth(i) == 1 + Cardinality({k \in (start + 5)..i : IsBeginAt(text, k)})
                      - Cardinality({k \in (start + 5)..i : IsEndAt(text, k)})
        i == Least({k \in (start + 5)..(Len(text) - 1) : IsEndAt(text, k) /\ depth(k) = 0})
    IN IF i = -1 THEN -1 ELSE i + 2

RECURSIVE _find_conditional_end(_)
RECURSIVE CondEndFrom(_, _)

\* the end of a single statement; -2 when the search raised
_find_statement_end(stmt) ==
    IF IfParen(stmt, Span(stmt, 0, SpaceCh)) # -1 THEN _find_conditional_end(stmt)
    ELSE IF find(stmt, <<";">>, 0) # -1 THEN find(stmt, <<";">>, 0) + 1
    ELSE Len(stmt)

\* the position after the branch body that starts at or after p0: a brace
\* block, or an inline statement
BodyEndFrom(stmt, p0) ==
    LET pos == p0 + Span(stmt, p0, SpaceCh)
        body_end == _find_matching_brace(stmt, pos)
        Inline(inner_end) == IF inner_end = -2 THEN -2 ELSE pos + inner_end
    IN IF pos < Len(stmt) /\ At(stmt, pos) = "{"
       THEN (IF body_end = -1 THEN Len(stmt) ELSE body_end + 1)
       ELSE Inline(_find_statement_end(From(stmt, pos)))

\* the position after the condition and the body of an `if` or `else if`
\* whose keyword stands at pos
AfterCondBody(stmt, pos) ==
    LET cond_start == index(stmt, <<"(">>, pos)
        cond_end == _find_matching_paren(stmt, cond_start)
    IN IF cond_start = -1 THEN -2
       ELSE IF cond_end = -1 THEN Len(stmt)
       ELSE BodyEndFrom(stmt, cond_end + 1)

\* one round of the loop of _find_conditional_end, from position pos0 on
CondEndFrom(stmt, pos0) ==
    LET pos == pos0 + Span(stmt, pos0, SpaceCh)
        Again(p) == IF p = -2 THEN -2 ELSE CondEndFrom(stmt, p)
    IN IF pos >= Len(stmt) THEN pos
       ELSE IF IfParen(stmt, pos) # -1 \/ ElseIfParen(stmt, pos, 1) # -1
       THEN Again(AfterCondBody(stmt, pos))
       ELSE IF ElseNotIf(stmt, pos) # -1
       THEN BodyEndFrom(stmt, ElseNotIf(stmt, pos))
       ELSE pos

\* the end of a complete if/else-if/else chain; -2 when the search raised
_find_conditional_end(stmt) == CondEndFrom(stmt, 0)

\* Some(<<statement, remainder>>) of an inline branch body, or Raised
_extract_inline_statement(stmt0) ==
    LET stmt == strip(stmt0)
        semi_pos == find(stmt, <<";">>, 0)
        Conditional(end_pos) ==
            IF end_pos = -2 THEN Raised
            ELSE Some(<<strip(Slice(stmt, 0, end_pos)), strip(From(stmt, end_pos))>>)
    IN IF IfParen(stmt, 0) # -1 THEN Conditional(_find_conditional_end(stmt))
       ELSE IF semi_pos # -1
       THEN Some(<<strip(Slice(stmt, 0, semi_pos)), strip(From(stmt, semi_pos + 1))>>)
       ELSE Some(<<stmt, <<>>>>)

\* The body and the remainder of a branch of stmt, whose text after the
\* condition (or after `else`) is after: a brace block found from brace_start
\* and cut at brace_pos, a begin/end block cut at begin_pos, or an inline
\* statement.  brace_pos and begin_pos come from str.index.
BranchBody(stmt, after, brace_start, brace_pos, begin_pos) ==
    LET body_end == _find_matching_brace(stmt, brace_start)
        end_pos == _find_matching_begin_end(stmt, begin_pos)
    IN IF startswith(after, <<"{">>)
       THEN (IF brace_start = -1 THEN Raised
             ELSE IF body_end = -1 THEN None
             ELSE IF brace_pos = -1 THEN Raised
             ELSE Some(<<strip(Slice(stmt, brace_pos + 1, body_end)),
                         strip(From(stmt, body_end + 1))>>))
       ELSE IF startswith(after, kw_begin)
       THEN (IF begin_pos = -1 THEN Raised
             ELSE IF end_pos = -1 THEN None
             ELSE Some(<<strip(Slice(stmt, begin_pos + 5, end_pos - 2)),
                         strip(From(stmt, end_pos + 1))>>))
       ELSE _extract_inline_statement(after)

\* Some(<<condition, body, remainder>>), None, or Raised
WithCondition(condition, branch) ==
    IF branch = None \/ IsRaised(branch) THEN branch
    ELSE Some(<<condition, branch[1][1], branch[1][2]>>)

_parse_if_block(stmt0) ==
    LET stmt == strip(stmt0)
        cond_start == IfParen(stmt, 0) - 1
        cond_end == _find_matching_paren(stmt, cond_start)
        condition == strip(Slice(stmt, cond_start + 1, cond_end))
        rest == From(stmt, cond_end + 1)
        after_cond == strip(rest)
    IN IF IfParen(stmt, 0) = -1 THEN None
       ELSE IF cond_end = -1 THEN None
       ELSE WithCondition(condition,
                BranchBody(stmt, after_cond, cond_end + 1 + (Len(rest) - Len(after_cond)),
                           index(stmt, <<"{">>, cond_end), index(stmt, kw_begin, cond_end)))

_parse_else_if_block(stmt0) ==
    LET stmt == strip(stmt0)
        cond_start == index(stmt, <<"(">>, 0)
        cond_end == _find_matching_paren(stmt, cond_start)
        condition == strip(Slice(stmt, cond_start + 1, cond_end))
        after_cond == strip(From(stmt, cond_end + 1))
        brace_pos == index(stmt, <<"{">>, cond_end)
    IN IF ElseIfParen(stmt, 0, 1) = -1 /\ ElseIfParen(stmt, 0, 0) = -1 THEN None
       ELSE IF cond_start = -1 THEN Raised
       ELSE IF cond_end = -1 THEN None
       ELSE WithCondition(condition,
                BranchBody(stmt, after_cond, brace_pos, brace_pos,
                           index(stmt, kw_begin, cond_end)))

\* Some(<<body, remainder>>), None, or Raised
_parse_else_block(stmt0) ==
    LET stmt == strip(stmt0)
        after_else == strip(From(stmt, 4))
        brace_pos == index(stmt, <<"{">>, 0)
    IN IF ~ElseNotSpaceIf(stmt) THEN None
       ELSE BranchBody(stmt, after_else, brace_pos, brace_pos, index(stmt, kw_begin, 0))

(***************************************************************************)
(* Statement translation.  A translation gives its lines and the list of   *)
(* manual-review items after it; the conditional parser also tells whether *)
(* it raised.                                                              *)
(***************************************************************************)
Result(ls, rv) == [lines |-> ls, review |-> rv, exc |-> FALSE]
Raise(rv) == [lines |-> <<>>, review |-> rv, exc |-> TRUE]

_add_review_item(rv, item) ==
    IF \E k \in 1..Len(rv) : rv[k] = item THEN rv ELSE Append(rv, item)

\* "    " * n
RECURSIVE Indent(_)
Indent(n) == IF n <= 0 THEN <<>> ELSE INDENT \o Indent(n - 1)

\* [f(line) for line in ls if keep(line)], f and keep of the cleanup steps:
\* the lines that are not blank and not a lone semicolon, without trailing
\* semicolons and the whitespace before them
RECURSIVE CleanLines(_)
CleanLines(ls) ==
    IF ls = <<>> THEN <<>>
    ELSE (IF strip(Head(ls)) # <<>> /\ strip(Head(ls)) # <<";">>
          THEN <<rstrip(rstripSemi(Head(ls)))>> ELSE <<>>)
         \o CleanLines(Tail(ls))

\* the lines a conditional branch keeps of a translated statement: each one
\* stripped, behind the indentation of the branch
RECURSIVE BranchLines(_, _)
BranchLines(ls, indent) ==
    IF ls = <<>> THEN <<>>
    ELSE (IF strip(rstripSemi(Head(ls))) # <<>>
          THEN <<indent \o strip(rstripSemi(Head(ls)))>> ELSE <<>>)
         \o BranchLines(Tail(ls), indent)

\* re.sub(r'\bself\.<idx>\b', idx, line), from position start on
RECURSIVE UnprefixFrom(_, _, _)
UnprefixFrom(line, idx, start) ==
    LET pat == <<"s","e","l","f",".">> \o idx
        k == Least({j \in start..(Len(line) - Len(pat)) :
                      /\ HasAt(line, j, pat)
                      /\ (j = 0 \/ ~IsW(At(line, j - 1)))
                      /\ (j + Len(pat) >= Len(line) \/ ~IsW(At(line, j + Len(pat))))})
    IN IF k = -1 THEN From(line, start)
       ELSE Slice(line, start, k) \o idx \o UnprefixFrom(line, idx, k + Len(pat))

\* the lines of a foreach body for one translated inner statement
RECURSIVE ForeachLines(_, _)
ForeachLines(ls, idx) ==
    IF ls = <<>> THEN <<>>
    ELSE <<INDENT \o UnprefixFrom(Head(ls), idx, 0)>> \o ForeachLines(Tail(ls), idx)

\* (\w+)\[<idx>\]\s+inside\s*\{([^}]+)\} on an inner statement of a foreach
ArrInside(inner, idx) ==
    LET e == Lit(inner, Lit(inner, Lit(inner, Plus(inner, 0, WordCh), <<"[">>), idx), <<"]">>)
    IN IF InsideClose(inner, e) = -1 THEN None
       ELSE Some(INDENT \o InsideLine(inner, Slice(inner, 0, e), e, InsideClose(inner, e)))

conditional_detected ==
    <<"C","o","n","d","i","t","i","o","n","a","l"," ","c","o","n","s","t","r","a","i","n","t"," ","d","e","t","e","c","t","e","d"," ","-"," ","v","e","r","i","f","y"," ","i","f","/","e","l","s","e","_","i","f","/","e","l","s","e","_","t","h","e","n"," ","s","t","r","u","c","t","u","r","e">>

RECURSIVE _translate_statement(_, _)
RECURSIVE _parse_full_conditional(_, _, _)
RECURSIVE _parse_block_body(_, _, _)
RECURSIVE ForeachBody(_, _, _)
RECURSIVE ChainFrom(_, _, _)
RECURSIVE BlockStatements(_, _, _)
RECURSIVE ConditionalBranch(_, _, _, _)

\* the loop of _try_foreach over the inner statements
ForeachBody(inner_stmts, idx, rv) ==
    IF inner_stmts = <<>> THEN Result(<<>>, rv)
    ELSE LET inner == strip(rstripSemi(strip(Head(inner_stmts))))
             Translated(t) == Result(ForeachLines(t.lines, idx), t.review)
             Lines(arr_inside, translated) ==
                 IF inner = <<>> THEN Result(<<>>, rv)
                 ELSE IF arr_inside # None THEN Result(<<arr_inside[1]>>, rv)
                 ELSE translated
             Joined(first, rest) == Result(first.lines \o rest.lines, rest.review)
             Then(first) == Joined(first, ForeachBody(Tail(inner_stmts), idx, first.review))
         IN Then(Lines(ArrInside(inner, idx), Translated(_translate_statement(inner, rv))))

\* foreach\s*\((\w+)\s*\[(\w+)\]\)\s*\{(.+)\}, the body running to the last
\* closing brace of the statement
_try_foreach(stmt, rv) ==
    LET p1 == Lit(stmt, Star(stmt, Lit(stmt, 0, <<"f","o","r","e","a","c","h">>), SpaceCh), <<"(">>)
        p2 == Plus(stmt, p1, WordCh)
        p3 == Lit(stmt, Star(stmt, p2, SpaceCh), <<"[">>)
        p4 == Plus(stmt, p3, WordCh)
        open == Lit(stmt, Star(stmt, Lit(stmt, p4, <<"]",")">>), SpaceCh), <<"{">>)
        idx_name == Slice(stmt, p3, p4)
        Lines(b) ==
            Some(Result(<<<<"w","i","t","h"," ","v","s","c",".","f","o","r","e","a","c","h","(","s","e","l","f",".">> \o Slice(stmt, p1, p2)
                          \o <<","," ","i","d","x","=","T","r","u","e",")"," ","a","s"," ">> \o idx_name \o <<":">>>>
                        \o (IF b.lines = <<>> THEN <<<<" "," "," "," ","p","a","s","s">>>> ELSE b.lines),
                        b.review))
        Matched(close) ==
            IF close = -1 THEN None
            ELSE Lines(ForeachBody(_split_statements(Slice(stmt, open, close)), idx_name, rv))
    IN Matched(LastBrace(stmt, open))

\* One branch of a chain and the branches after it.  r is what the parser of
\* the branch gave: None, Raised, Some(<<condition, body, remainder>>) for an
\* `if` (keyword if_then) or an `else if` (keyword else_if), or
\* Some(<<body, remainder>>) for an `else`.
ConditionalBranch(r, keyword, base_indent, rv) ==
    LET indent == Indent(base_indent)
        has_condition == Len(r[1]) = 3
        WithRest(opener, b, rest) ==
            IF rest.exc THEN rest
            ELSE Result(<<opener>>
                        \o (IF b.lines = <<>> THEN <<indent \o <<" "," "," "," ","p","a","s","s">>>> ELSE b.lines)
                        \o rest.lines, rest.review)
        Branch(opener, b, remaining) ==
            IF b.exc THEN b
            ELSE WithRest(opener, b, ChainFrom(strip(remaining), base_indent, b.review))
    IN IF IsRaised(r) THEN Raise(rv)
       ELSE IF r = None THEN Result(<<>>, rv)
       ELSE Branch(IF has_condition
                   THEN indent \o <<"w","i","t","h"," ","v","s","c",".">> \o keyword \o <<"(">>
                        \o _translate_expression(r[1][1]) \o <<")",":">>
                   ELSE indent \o <<"w","i","t","h"," ","v","s","c",".","e","l","s","e","_","t","h","e","n",":">>,
                   _parse_block_body(r[1][Len(r[1]) - 1], base_indent + 1, rv),
                   r[1][Len(r[1])])

\* the else-if and else branches that follow, while there is text left: the
\* else-if parser is tried first, and the else parser when it gives None
ChainFrom(remaining, base_indent, rv) ==
    IF remaining = <<>> THEN Result(<<>>, rv)
    ELSE ConditionalBranch(OrElse(_parse_else_if_block(remaining),
                                  _parse_else_block(remaining), None),
                           <<"e","l","s","e","_","i","f">>, base_indent, rv)

_parse_full_conditional(stmt, base_indent, rv) ==
    ConditionalBranch(_parse_if_block(strip(stmt)), <<"i","f","_","t","h","e","n">>, base_indent, rv)

\* first, then rest, unless one of them raised
Sequenced(first, rest) ==
    IF first.exc THEN first
    ELSE IF rest.exc THEN rest
    ELSE Result(first.lines \o rest.lines, rest.review)

\* the loop of _parse_block_body over the statements of a branch
BlockStatements(stmts, indent_level, rv) ==
    IF stmts = <<>> THEN Result(<<>>, rv)
    ELSE LET stmt == strip(rstripSemi(strip(Head(stmts))))
             Translated(t) == Result(BranchLines(t.lines, Indent(indent_level)), t.review)
             Then(first) ==
                 Sequenced(first, BlockStatements(Tail(stmts), indent_level, first.review))
         IN Then(IF stmt = <<>> THEN Result(<<>>, rv)
                 ELSE IF IfParen(stmt, 0) # -1
                 THEN _parse_full_conditional(stmt, indent_level, rv)
                 ELSE Translated(_translate_statement(stmt, rv)))

\* _parse_block_body of a body that starts with `if (` and whose conditional
\* ends at cond_end
NestedThenRest(stripped, cond_end, indent_level, rv) ==
    LET Then(nested) ==
            Sequenced(nested,
                      BlockStatements(_split_statements(strip(From(stripped, cond_end))),
                                      indent_level, nested.review))
    IN IF cond_end = -2 THEN Raise(rv)
       ELSE Then(_parse_full_conditional(strip(Slice(stripped, 0, cond_end)), indent_level,
                                         rv))

_parse_block_body(body0, indent_level, rv) ==
    LET stripped == strip(body0)
    IN IF stripped = <<>> THEN Result(<<>>, rv)
       ELSE IF IfParen(stripped, 0) = -1
       THEN BlockStatements(_split_statements(stripped), indent_level, rv)
       ELSE NestedThenRest(stripped, _find_conditional_end(stripped), indent_level, rv)

\* the fallback of _try_conditional: the statement as comment lines
RECURSIVE CommentLines(_)
CommentLines(ls) ==
    IF ls = <<>> THEN <<>>
    ELSE (IF strip(Head(ls)) # <<>> THEN <<<<"#"," ">> \o strip(Head(ls))>> ELSE <<>>)
         \o CommentLines(Tail(ls))

_try_conditional(stmt, rv) ==
    LET Lines(r) ==
            IF r.exc
            THEN Some(Result(<<<<"#"," ","T","O","D","O",":"," ","C","o","m","p","l","e","x"," ","c","o","n","d","i","t","i","o","n","a","l"," ","-"," ","m","a","n","u","a","l"," ","t","r","a","n","s","l","a","t","i","o","n"," ","n","e","e","d","e","d">>>>
                             \o CommentLines(split(stmt, <<"\n">>)) \o <<<<"p","a","s","s">>>>,
                             _add_review_item(r.review,
                                 <<"C","o","n","d","i","t","i","o","n","a","l"," ","p","a","r","s","i","n","g"," ","e","r","r","o","r",":"," ","s","u","b","s","t","r","i","n","g"," ","n","o","t"," ","f","o","u","n","d">>)))
            ELSE Some(Result(r.lines, r.review))
    IN IF IfParen(stmt, Span(stmt, 0, SpaceCh)) = -1 THEN None
       ELSE Lines(_parse_full_conditional(stmt, 0,
                                          _add_review_item(rv, conditional_detected)))

\* What each matcher gives for the statement, in the order
\* _translate_statement tries them: None, or Some of its lines and the review
\* items after it.  A matcher that gives None leaves the generator as it was,
\* so what the matchers after the first result would give changes nothing.
translators(stmt, rv) ==
    LET pure_(r) == IF r = None THEN None ELSE Some(Result(r[1], rv))
    IN <<pure_(_try_solve_order(stmt)),
         pure_(_try_soft(stmt)),
         pure_(_try_unique(stmt)),
         _try_foreach(stmt, rv),
         pure_(_try_distribution(stmt)),
         pure_(_try_inside(stmt)),
         pure_(_try_negated_inside(stmt)),
         pure_(_try_impl_inside(stmt)),
         pure_(_try_implication(stmt)),
         _try_conditional(stmt, rv),
         pure_(_try_array_size(stmt)),
         pure_(_try_range_constraint(stmt)),
         pure_(_try_simple_expression(stmt))>>

\* the first of the results that is not None, or None
FirstResult(results) ==
    IF \A i \in DOMAIN results : results[i] = None THEN None
    ELSE results[Least({i \in DOMAIN results : results[i] # None})]

_translate_statement(stmt0, rv) ==
    LET stmt == strip(rstripSemi(stmt0))
        Cleaned(translated) ==
            IF translated = None THEN Result(<<>>, rv)
            ELSE Result(CleanLines(translated[1].lines), translated[1].review)
    IN Cleaned(IF stmt = <<>> THEN None ELSE FirstResult(translators(stmt, rv)))

\* the translated lines of the statements of a constraint body, in source
\* order
RECURSIVE BodyStatements(_, _)
BodyStatements(stmts, rv) ==
    IF stmts = <<>> THEN Result(<<>>, rv)
    ELSE LET Joined(first, rest) == Result(first.lines \o rest.lines, rest.review)
             Then(first) == Joined(first, BodyStatements(Tail(stmts), first.review))
         IN Then(IF strip(Head(stmts)) = <<>> THEN Result(<<>>, rv)
                 ELSE _translate_statement(strip(Head(stmts)), rv))

IsSolveOrderLine(line) == contains(line, <<"v","s","c",".","s","o","l","v","e","_","o","r","d","e","r","(">>)

\* the lines that are solve_order lines (solve_order = TRUE), or the others
RECURSIVE SelectLines(_, _)
SelectLines(ls, solve_order) ==
    IF ls = <<>> THEN <<>>
    ELSE (IF IsSolveOrderLine(Head(ls)) = solve_order THEN <<Head(ls)>> ELSE <<>>)
         \o SelectLines(Tail(ls), solve_order)

\* _translate_constraint_body without its two lists: the lines in the order
\* of the statements
_translate_constraint_body_in_source_order(constraint_body, rv) ==
    BodyStatements(_split_statements(constraint_body), rv)

_translate_constraint_body(constraint_body, rv) ==
    LET solve_order_lines(all) == SelectLines(all.lines, TRUE)
        other_lines(all) == SelectLines(all.lines, FALSE)
        Ordered(all) == Result(solve_order_lines(all) \o other_lines(all), all.review)
    IN Ordered(BodyStatements(_split_statements(constraint_body), rv))

\* the lines of _generate_constraint, each behind the given indentation
RECURSIVE Indented(_, _)
Indented(ls, indent) ==
    IF ls = <<>> THEN <<>> ELSE <<indent \o Head(ls)>> \o Indented(Tail(ls), indent)

(***************************************************************************)
(* The auditor: the variables of a constraint and of its translation       *)
(***************************************************************************)
IdentStart == Lower \cup Upper \cup {"_"}

\* set(re.findall(r'\b([a-zA-Z_][a-zA-Z0-9_]*)\b', text))
Identifiers(text) ==
    {Slice(text, i, i + Span(text, i, WordCh)) :
        i \in {k \in 0..(Len(text) - 1) : /\ At(text, k) \in IdentStart
                                          /\ (k = 0 \/ ~IsW(At(text, k - 1)))}}

\* sv_keywords of _calculate_constraint_metrics
sv_keywords == {<<"i","f">>, <<"e","l","s","e">>, <<"i","n","s","i","d","e">>, <<"d","i","s","t">>, <<"s","o","l","v","e">>, <<"b","e","f","o","r","e">>,
                <<"f","o","r","e","a","c","h">>, <<"u","n","i","q","u","e">>, <<"s","o","f","t">>, <<"c","o","n","s","t","r","a","i","n","t">>, <<"r","a","n","d">>, <<"r","a","n","d","c">>,
                <<"b","i","t">>, <<"l","o","g","i","c">>, <<"i","n","t">>, <<"b","y","t","e">>, <<"s","i","z","e">>, <<"t","h","i","s">>}

\* metrics['variable_names'] of _calculate_constraint_metrics(body)
variable_names(constraint_body) == Identifiers(constraint_body) \ sv_keywords

\* set(re.findall(r'self\.([a-zA-Z_][a-zA-Z0-9_]*)', code)), from start on
RECURSIVE SelfVarsFrom(_, _)
SelfVarsFrom(code, start) ==
    IF start >= Len(code) THEN {}
    ELSE LET Found(i, e) == IF i = -1 THEN {}
                            ELSE {Slice(code, i + 5, e)} \cup SelfVarsFrom(code, e)
             At_(i) == Found(i, i + 5 + Span(code, i + 5, WordCh))
         IN At_(Least({k \in start..(Len(code) - 6) :
                          HasAt(code, k, <<"s","e","l","f",".">>) /\ At(code, k + 5) \in IdentStart}))

\* set(re.findall(r'as\s+(\w+):', code))
loop_vars(code) ==
    {Slice(code, Plus(code, k + 2, SpaceCh),
           Plus(code, Plus(code, k + 2, SpaceCh), WordCh)) :
        k \in {j \in 0..(Len(code) - 1) :
                  Lit(code, Plus(code, Plus(code, Lit(code, j, <<"a","s">>), SpaceCh), WordCh),
                      <<":">>) # -1}}

\* re.match(r'^[hbdHBD][0-9a-fA-F]+$', sv_var)
NumberShaped(sv_var) ==
    LET n == IF sv_var[Len(sv_var)] = "\n" THEN Len(sv_var) - 1 ELSE Len(sv_var)
    IN /\ n >= 2
       /\ sv_var[1] \in {"h", "b", "d", "H", "B", "D"}
       /\ \A k \in 2..n : sv_var[k] \in HexCh \ {"_"}

\* str.isupper
isupper(s) == (\E k \in 1..Len(s) : s[k] \in Upper) /\ (\A k \in 1..Len(s) : s[k] \notin Lower)

\* re.sub(r'_(\d)', r'\1', s)
RECURSIVE Normalized(_)
Normalized(s) ==
    IF s = <<>> THEN <<>>
    ELSE IF s[1] = "_" /\ Len(s) > 1 /\ s[2] \in Digit THEN Normalized(Tail(s))
    ELSE <<s[1]>> \o Normalized(Tail(s))

\* the variables the loop of _calculate_output_metrics passes over
SkippedVar(sv_var, loops) ==
    \/ NumberShaped(sv_var)
    \/ sv_var \in {<<"i">>, <<"j">>, <<"k">>, <<"i","d","x">>, <<"i","n","d","e","x">>}
    \/ sv_var \in loops
    \/ isupper(sv_var)

\* missing_vars and name_mismatches of _calculate_output_metrics: the
\* variables of the source that are not in the output, and those found in it
\* under another spelling.  The counts of the constructs, which only the
\* docstring of verbose mode shows, are left out.
_calculate_output_metrics(body_code, sv_var_names) ==
    LET Checked(output_vars, loops) ==
            LET unmatched == {v \in sv_var_names : /\ ~SkippedVar(v, loops)
                                                   /\ v \notin output_vars}
                Renamed(v) == \E o \in output_vars : Normalized(v) = Normalized(o) /\ v # o
            IN [missing_vars |-> {v \in unmatched : ~Renamed(v) /\ v[1] \notin Digit},
                name_mismatches |-> {v \in unmatched : Renamed(v)}]
    IN Checked(SelfVarsFrom(body_code, 0), loop_vars(body_code))

\* the characters of names in the order of their code points
ByCodePoint ==
    <<"0","1","2","3","4","5","6","7","8","9","A","B","C","D","E","F","G","H","I","J","K","L","M","N","O","P","Q","R","S","T","U","V","W","X","Y","Z","_","a","b","c","d","e","f","g","h","i","j","k","l","m","n","o","p","q","r","s","t","u","v","w","x","y","z">>

ord(c) == CHOOSE k \in 1..Len(ByCodePoint) : ByCodePoint[k] = c

\* a < b for two names
NameLess(a, b) ==
    \E k \in 1..(Min(Len(a), Len(b)) + 1) :
        /\ SubSeq(a, 1, k - 1) = SubSeq(b, 1, k - 1)
        /\ \/ k > Len(a) /\ k <= Len(b)
           \/ k <= Len(a) /\ k <= Len(b) /\ ord(a[k]) < ord(b[k])

\* sorted(names) of a set of names
RECURSIVE sorted(_)
sorted(names) ==
    IF names = {} THEN <<>>
    ELSE LET least == CHOOSE a \in names : \A b \in names \ {a} : NameLess(a, b)
         IN <<least>> \o sorted(names \ {least})

_add_warning(wn, warning) ==
    IF \E k \in 1..Len(wn) : wn[k] = warning THEN wn ELSE Append(wn, warning)

\* the warnings after _generate_constraint has looked at the output metrics
MetricsWarnings(name, output_metrics, wn) ==
    LET Changed(w) ==
            IF output_metrics.name_mismatches # {}
            THEN _add_warning(w, <<"C","o","n","s","t","r","a","i","n","t"," ","'">> \o name
                                 \o <<"'",":"," ","V","a","r","i","a","b","l","e"," ","n","a","m","e","s"," ","m","a","y"," ","h","a","v","e"," ","c","h","a","n","g","e","d">>)
            ELSE w
    IN Changed(IF output_metrics.missing_vars # {}
               THEN _add_warning(wn, <<"C","o","n","s","t","r","a","i","n","t"," ","'">> \o name
                                     \o <<"'",":"," ","V","a","r","i","a","b","l","e","s"," ","m","i","s","s","i","n","g"," ","i","n"," ","o","u","t","p","u","t",":"," ">>
                                     \o join(<<","," ">>, sorted(output_metrics.missing_vars)))
               ELSE wn)

\* _generate_constraint without the placeholder for a body that gave no line
_generate_constraint_no_placeholder(name, constraint_body, rv, wn) ==
    LET Method(b) ==
            [lines |-> <<INDENT \o <<"@","v","s","c",".","c","o","n","s","t","r","a","i","n","t">>, INDENT \o <<"d","e","f"," ">> \o name \o <<"(","s","e","l","f",")",":">>>>
                       \o Indented(b.lines, INDENT \o INDENT),
             review |-> b.review, exc |-> b.exc, warnings |-> wn]
    IN Method(_translate_constraint_body(constraint_body, rv))

\* The method generated for a constraint by a generator whose verbose is off
\* (the default of its constructor): the decorator, the def line and the
\* body, the review items and the warnings after it.
_generate_constraint(name, constraint_body, rv, wn) ==
    LET head == <<INDENT \o <<"@","v","s","c",".","c","o","n","s","t","r","a","i","n","t">>,
                  INDENT \o <<"d","e","f"," ">> \o name \o <<"(","s","e","l","f",")",":">>>>
        Audited(r, body_code) ==
            [lines |-> r.lines, review |-> r.review, exc |-> r.exc,
             warnings |-> MetricsWarnings(name,
                              _calculate_output_metrics(body_code,
                                                        variable_names(constraint_body)),
                              wn)]
        Method(b) ==
            Audited(IF b.lines # <<>>
                    THEN Result(head \o Indented(b.lines, INDENT \o INDENT), b.review)
                    ELSE Result(head \o <<INDENT \o INDENT
                                          \o <<"p","a","s","s"," "," ","#"," ","T","O","D","O",":"," ","M","a","n","u","a","l"," ","t","r","a","n","s","l","a","t","i","o","n"," ","r","e","q","u","i","r","e","d">>>>,
                                _add_review_item(b.review, <<"C","o","n","s","t","r","a","i","n","t"," ","'">> \o name
                                                           \o <<"'"," ","r","e","q","u","i","r","e","s"," ","m","a","n","u","a","l"," ","t","r","a","n","s","l","a","t","i","o","n">>)),
                    join(<<"\n">>, b.lines))
    IN Method(_translate_constraint_body(constraint_body, rv))

(***************************************************************************)
(* Runs.  A run starts from a source text and applies one operation of the *)
(* generator to it; the generator is in the state _reset_state leaves.     *)
(***************************************************************************)
Start(texts) ==
    /\ pc = "input"
    /\ body \in texts
    /\ statements = <<>>
    /\ lines = <<>>
    /\ review = <<>>
    /\ enum_value_map = <<>>
    /\ enum_class_names = {}
    /\ OthersInit

\* the operation gives r: its lines, and the review items after it
Returns(r) == lines' = r.lines /\ review' = r.review

\* _split_statements(body)
SplitStatements ==
    /\ pc = "input"
    /\ statements' = _split_statements(body)
    /\ pc' = "split"
    /\ UNCHANGED <<body, lines, review, enum_value_map, enum_class_names, others>>

\* _translate_statement(body)
TranslateStatement ==
    /\ pc = "input"
    /\ Returns(_translate_statement(body, review))
    /\ pc' = "translated"
    /\ UNCHANGED <<body, statements, enum_value_map, enum_class_names, others>>

\* _translate_constraint_body(body)
TranslateConstraintBody ==
    /\ pc = "input"
    /\ Returns(_translate_constraint_body(body, review))
    /\ pc' = "body translated"
    /\ UNCHANGED <<body, statements, enum_value_map, enum_class_names, others>>

\* the name of the constraint in the runs of _generate_constraint
constraint_name == <<"c","1">>

\* _generate_constraint(SVConstraint(name, body))
GenerateConstraint ==
    /\ pc = "input"
    /\ LET Generated(r) == Returns(r) /\ warnings' = r.warnings
       IN Generated(_generate_constraint(constraint_name, body, review, warnings))
    /\ pc' = "generated"
    /\ UNCHANGED <<body, statements, enum_value_map, enum_class_names, fields, run>>

\* _extract_simple_range_constraint(SVConstraint(name, body)), the line it
\* gives being the one _generate_class puts under parameter_range
ExtractSimpleRange ==
    /\ pc = "input"
    /\ LET Line(r) == IF r = None THEN <<>> ELSE <<r[1]>>
       IN lines' = Line(_extract_simple_range_constraint(body))
    /\ pc' = "extracted"
    /\ UNCHANGED <<body, statements, review, enum_value_map, enum_class_names, others>>

\* str(n) of an integer
RECURSIVE NatStr(_)
NatStr(n) ==
    LET d == <<"0", "1", "2", "3", "4", "5", "6", "7", "8", "9">>
    IN IF n < 10 THEN <<d[n + 1]>> ELSE NatStr(n \div 10) \o <<d[(n % 10) + 1]>>

IntStr(n) == IF n < 0 THEN <<"-">> \o NatStr(-n) ELSE NatStr(n)

(***************************************************************************)
(* The range shorthand                                                     *)
(***************************************************************************)
MaxRangeValue == 2

\* bounds of one and two digits, negative, zero and positive
RangeValues == {7 * v : v \in (-MaxRangeValue)..MaxRangeValue}

Fields == {<<"f">>, <<"c","n","t","_","1">>}

\* `f >= lo && f <= hi;` and its mirror `f <= hi && f >= lo;`
RangeStatement(f, lo, hi, mirror) ==
    IF mirror
    THEN f \o <<" ","<","="," ">> \o IntStr(hi) \o <<" ","&","&"," ">> \o f \o <<" ",">","="," ">> \o IntStr(lo) \o <<";">>
    ELSE f \o <<" ",">","="," ">> \o IntStr(lo) \o <<" ","&","&"," ">> \o f \o <<" ","<","="," ">> \o IntStr(hi) \o <<";">>

RangeStatements ==
    {RangeStatement(f, lo, hi, mirror) :
        f \in Fields, lo \in RangeValues, hi \in RangeValues, mirror \in BOOLEAN}

InitRange == Start(RangeStatements)

NextRange == TranslateStatement \/ ExtractSimpleRange

SpecRange == InitRange /\ [][NextRange]_vars

\* C1: translating `f >= lo && f <= hi`, or its mirror `f <= hi && f >= lo`,
\* with lo <= hi gives exactly one line, self.f in
\* vsc.rangelist(vsc.rng(lo, hi)): the bounds are (lo, hi) in that order
\* whichever comparison stands first, both when the statement is translated
\* and when the constraint is taken as a simple range of the class.
C1_RangeBoundsInOrder ==
    \A f \in Fields, lo \in RangeValues, hi \in RangeValues, mirror \in BOOLEAN :
        (/\ lo <= hi
         /\ body = RangeStatement(f, lo, hi, mirror)
         /\ pc \in {"translated", "extracted"})
        => lines = <<<<"s","e","l","f",".">> \o f \o <<" ","i","n"," ","v","s","c",".","r","a","n","g","e","l","i","s","t","(","v","s","c",".","r","n","g","(">> \o IntStr(lo)
                     \o <<","," ">> \o IntStr(hi) \o <<")",")">>>>

\* a mirrored statement with a negative lower bound has been translated
C1_MirrorTranslated ==
    /\ pc = "translated"
    /\ body = RangeStatement(<<"c","n","t","_","1">>, -7, 14, TRUE)
    /\ lines = <<<<"s","e","l","f",".","c","n","t","_","1"," ","i","n"," ","v","s","c",".","r","a","n","g","e","l","i","s","t","(","v","s","c",".","r","n","g","(","-","7",","," ","1","4",")",")">>>>

(***************************************************************************)
(* Plain implications                                                      *)
(***************************************************************************)
ImplFields == {<<"e","n","a","b","l","e">>, <<"w","i","d","t","h">>}
ImplValues == {1, 128}
ImplOps == {<<"<","=">>, <<"=","=">>}

\* the operands of the implications: a bare field, a negated field, or a
\* comparison of a field with a number
ImplOperands ==
    {<<"bare", f, <<>>, 0>> : f \in ImplFields}
    \cup {<<"not", f, <<>>, 0>> : f \in ImplFields}
    \cup {<<"cmp", f, op, n>> : f \in ImplFields, op \in ImplOps, n \in ImplValues}

\* an operand as the source writes it
OperandSource(o) ==
    IF o[1] = "bare" THEN o[2]
    ELSE IF o[1] = "not" THEN <<"!">> \o o[2]
    ELSE o[2] \o <<" ">> \o o[3] \o <<" ">> \o IntStr(o[4])

\* an operand as the output is to show it: the field scoped, a bare field
\* compared with zero
OperandTarget(o) ==
    IF o[1] = "bare" THEN <<"(","s","e","l","f",".">> \o o[2] \o <<" ","!","="," ","0",")">>
    ELSE IF o[1] = "not" THEN <<"(","s","e","l","f",".">> \o o[2] \o <<" ","=","="," ","0",")">>
    ELSE <<"s","e","l","f",".">> \o o[2] \o <<" ">> \o o[3] \o <<" ">> \o IntStr(o[4])

ImplicationStatement(a, b) == OperandSource(a) \o <<" ","-",">"," ">> \o OperandSource(b) \o <<";">>

ImplicationStatements == {ImplicationStatement(a, b) : a \in ImplOperands, b \in ImplOperands}

InitImplication == Start(ImplicationStatements)

NextImplication == TranslateStatement \/ TranslateConstraintBody

SpecImplication == InitImplication /\ [][NextImplication]_vars

\* C11: a plain implication `A -> B` is translated, as a statement and as a
\* constraint body, into exactly two lines: the opener
\* with vsc.implies(<A'>): and, one indentation level beneath it, <B'>, A' and
\* B' being the rewritten operands with their fields scoped as self.<name>.
C11_ImplicationTwoLines ==
    \A a \in ImplOperands, b \in ImplOperands :
        (body = ImplicationStatement(a, b) /\ pc \in {"translated", "body translated"})
        => lines = <<<<"w","i","t","h"," ","v","s","c",".","i","m","p","l","i","e","s","(">> \o OperandTarget(a) \o <<")",":">>,
                     <<" "," "," "," ">> \o OperandTarget(b)>>

\* `enable -> width <= 128;` has been translated
C11_EnableWidthTranslated ==
    /\ pc = "translated"
    /\ body = <<"e","n","a","b","l","e"," ","-",">"," ","w","i","d","t","h"," ","<","="," ","1","2","8",";">>
    /\ lines = <<<<"w","i","t","h"," ","v","s","c",".","i","m","p","l","i","e","s","(","(","s","e","l","f",".","e","n","a","b","l","e"," ","!","="," ","0",")",")",":">>, <<" "," "," "," ","s","e","l","f",".","w","i","d","t","h"," ","<","="," ","1","2","8">>>>

(***************************************************************************)
(* Where the range shorthand applies                                       *)
(***************************************************************************)
ShorthandFields == {<<"w","i","d","t","h">>, <<"l","e","n">>}
ShorthandValues == {1, 5, 255}

\* a further term of a conjunction, behind its connective
FurtherTerms == {<<" ","&","&"," ","x"," ","=","="," ","2">>, <<" ","|","|"," ","y">>}

\* `f >= lo; f <= hi;`: the two bounds as two statements
SeparateBounds(f, lo, hi) ==
    f \o <<" ",">","="," ">> \o IntStr(lo) \o <<";"," ">> \o f \o <<" ","<","="," ">> \o IntStr(hi) \o <<";">>

\* `f >= lo && f <= hi<more>;`: the two bounds and a further term
ExtendedRange(f, lo, hi, more) ==
    f \o <<" ",">","="," ">> \o IntStr(lo) \o <<" ","&","&"," ">> \o f \o <<" ","<","="," ">> \o IntStr(hi) \o more \o <<";">>

ShorthandBodies ==
    {RangeStatement(f, lo, hi, FALSE) : f \in ShorthandFields, lo \in ShorthandValues,
                                        hi \in ShorthandValues}
    \cup {SeparateBounds(f, lo, hi) : f \in ShorthandFields, lo \in ShorthandValues,
                                      hi \in ShorthandValues}
    \cup {ExtendedRange(f, lo, hi, more) : f \in ShorthandFields, lo \in ShorthandValues,
                                           hi \in ShorthandValues, more \in FurtherTerms}

InitShorthand == Start(ShorthandBodies)

NextShorthand == TranslateConstraintBody \/ ExtractSimpleRange

SpecShorthand == InitShorthand /\ [][NextShorthand]_vars

\* the rangelist line of the shorthand for f, lo and hi
ShorthandLine(f, lo, hi) ==
    <<"s","e","l","f",".">> \o f \o <<" ","i","n"," ","v","s","c",".","r","a","n","g","e","l","i","s","t","(","v","s","c",".","r","n","g","(">> \o IntStr(lo) \o <<","," ">> \o IntStr(hi)
    \o <<")",")">>

\* C12: the rangelist shorthand is produced only for a statement that is, as
\* a whole, the two-bound conjunction on one variable: two separate bound
\* statements give their two comparisons, and a conjunction that carries a
\* further term is not collapsed into the rangelist line of its two bounds.
C12_ShorthandOnlyForWholeStatement ==
    \A f \in ShorthandFields, lo \in ShorthandValues, hi \in ShorthandValues :
        /\ (body = SeparateBounds(f, lo, hi) /\ pc = "body translated")
           => lines = <<<<"s","e","l","f",".">> \o f \o <<" ",">","="," ">> \o IntStr(lo),
                        <<"s","e","l","f",".">> \o f \o <<" ","<","="," ">> \o IntStr(hi)>>
        /\ \A more \in FurtherTerms :
               (body = ExtendedRange(f, lo, hi, more)
                /\ pc \in {"body translated", "extracted"})
               => lines # <<ShorthandLine(f, lo, hi)>>

(***************************************************************************)
(* SVParser: the fields of a class body                                    *)
(***************************************************************************)
\* int(c) of one digit
DigitValue(c) == CHOOSE n \in 0..9 : NatStr(n) = <<c>>

\* int(s) of a text of digits
RECURSIVE int(_)
int(s) == IF s = <<>> THEN 0
          ELSE 10 * int(SubSeq(s, 1, Len(s) - 1)) + DigitValue(s[Len(s)])

invalid_names == {<<"f","o","r","m","a","t">>, <<"b","e","f","o","r","e">>, <<"i","n","s","i","d","e">>, <<"s","o","l","v","e">>, <<"i","f">>, <<"e","l","s","e">>,
                  <<"c","o","n","s","t","r","a","i","n","t">>, <<"f","u","n","c","t","i","o","n">>, <<"e","n","d","f","u","n","c","t","i","o","n">>, <<"r","e","t","u","r","n">>, <<"t","h","i","s">>,
                  <<"b","e","g","i","n">>, <<"e","n","d">>}

\* ^[a-zA-Z_][a-zA-Z0-9_]*$ where $ also matches before one closing newline
IdentifierShaped(name) ==
    LET n == IF name[Len(name)] = "\n" THEN Len(name) - 1 ELSE Len(name)
    IN /\ n >= 1
       /\ name[1] \in Lower \cup Upper \cup {"_"}
       /\ \A k \in 2..n : IsW(name[k])

_is_valid_field_name(name) ==
    /\ name # <<>>
    /\ IdentifierShaped(name)
    /\ name \notin invalid_names
    /\ ~startswith(name, <<"_">>)

block_keywords == {<<"c","o","n","s","t","r","a","i","n","t">>, <<"f","u","n","c","t","i","o","n">>, <<"t","a","s","k">>}

\* re.match(rf'\s*{kw}\s+\w+', stripped) for one of the block keywords
OpensBlock(stripped) ==
    \E kw \in block_keywords :
        Plus(stripped, Plus(stripped, Lit(stripped, Star(stripped, 0, SpaceCh), kw),
                            SpaceCh), WordCh) # -1

\* the loop of _remove_blocks_for_field_extraction over the lines ls, entered
\* with in_block and brace_depth: the lines it keeps
RECURSIVE RemoveBlocksFrom(_, _, _)
RemoveBlocksFrom(ls, in_block, depth) ==
    IF ls = <<>> THEN <<>>
    ELSE LET stripped == strip(ls[1])
             entered == in_block \/ OpensBlock(stripped)
             d == (IF in_block THEN depth ELSE 0)
                  + Count(stripped, "{", 0, Len(stripped))
                  - Count(stripped, "}", 0, Len(stripped))
             closes == /\ d <= 0
                       /\ \/ contains(stripped, <<"}">>)
                          \/ contains(stripped, <<"e","n","d","f","u","n","c","t","i","o","n">>)
                          \/ contains(stripped, <<"e","n","d","t","a","s","k">>)
         IN IF entered
            THEN RemoveBlocksFrom(Tail(ls), ~closes, IF closes THEN 0 ELSE d)
            ELSE <<ls[1]>> \o RemoveBlocksFrom(Tail(ls), FALSE, depth)

_remove_blocks_for_field_extraction(class_body) ==
    join(<<"\n">>, RemoveBlocksFrom(split(class_body, <<"\n">>), FALSE, 0))

\* re.sub(r'//.*', '', s), from position start on
RECURSIVE SubLineComments(_, _)
SubLineComments(s, start) ==
    IF start >= Len(s) THEN <<>>
    ELSE LET Cut(i) == IF i = -1 THEN From(s, start)
                       ELSE Slice(s, start, i)
                            \o SubLineComments(s, i + 2 + SpanNot(s, i + 2, {"\n"}))
         IN Cut(find(s, <<"/","/">>, start))

skip_keywords == {<<"s","o","l","v","e"," ">>, <<"i","n","s","i","d","e"," ">>, <<"d","i","s","t"," ">>, <<" ","b","e","f","o","r","e"," ">>, <<"f","o","r","e","a","c","h">>,
                  <<"u","n","i","q","u","e">>, <<"c","o","n","s","t","r","a","i","n","t"," ">>, <<"f","u","n","c","t","i","o","n"," ">>, <<"e","n","d","f","u","n","c","t","i","o","n">>,
                  <<"i","f"," ">>, <<"e","l","s","e">>, <<"r","e","t","u","r","n">>, <<"=","=">>, <<"!","=">>, <<"<","=">>, <<">","=">>, <<"-",">">>}

\* \b behind a word that ends at position i
WordEnd(s, i) == IF i = -1 \/ (i < Len(s) /\ IsW(At(s, i))) THEN -1 ELSE i

\* ^\s*(rand|randc)?\s* with the alternative rand taken for the group (the
\* empty text: the group takes none)
RandPrefix(line, rand) == Star(line, Lit(line, Star(line, 0, SpaceCh), rand), SpaceCh)

\* (t1|t2|...)\b at position i, for the type names of the set types
TypeEnd(line, i, types) == Greatest({WordEnd(line, Lit(line, i, t)) : t \in types})

\* (?:\[(\d+):0\]) at position i
WidthEnd(line, i) == Lit(line, Plus(line, Lit(line, i, <<"[">>), Digit), <<":","0","]">>)

\* an optional part of a pattern that is taken (its end is e) or is not
Taken(taken, i, e) == IF taken THEN e ELSE i

\* FieldType of the group (rand|randc)?
FieldTypeOf(rand) == IF rand = <<>> THEN <<"n","o","n","_","r","a","n","d">> ELSE rand

\* the ways the optional groups of the bit/logic patterns can be taken, as
\* <<rand, signed taken, width taken>>, in the order the matcher tries them
BitWays ==
    <<<<<<"r","a","n","d">>, TRUE, TRUE>>, <<<<"r","a","n","d">>, TRUE, FALSE>>,
      <<<<"r","a","n","d">>, FALSE, TRUE>>, <<<<"r","a","n","d">>, FALSE, FALSE>>,
      <<<<"r","a","n","d","c">>, TRUE, TRUE>>, <<<<"r","a","n","d","c">>, TRUE, FALSE>>,
      <<<<"r","a","n","d","c">>, FALSE, TRUE>>, <<<<"r","a","n","d","c">>, FALSE, FALSE>>,
      <<<<>>, TRUE, TRUE>>, <<<<>>, TRUE, FALSE>>,
      <<<<>>, FALSE, TRUE>>, <<<<>>, FALSE, FALSE>>>>

\* ^\s*(rand|randc)?\s*(bit|logic)\b\s*(signed)?\s*(?:\[(\d+):0\])?\s* taken
\* the way w: <<the end of the type, the end of the width, the end>>
BitHead(line, w) ==
    LET p1 == RandPrefix(line, w[1])
        p2 == TypeEnd(line, p1, {<<"b","i","t">>, <<"l","o","g","i","c">>})
        p3 == Star(line, Taken(w[2], p2, Lit(line, Star(line, p2, SpaceCh), <<"s","i","g","n","e","d">>)),
                   SpaceCh)
        p4 == Taken(w[3], p3, WidthEnd(line, p3))
    IN <<p1, p2, p3, p4, Star(line, p4, SpaceCh)>>

\* the width of a bit/logic field whose head is h
BitWidth(line, w, h) == IF w[3] THEN int(Slice(line, h[3] + 1, h[4] - 3)) + 1 ELSE 1

\* \w+(?:\s*,\s*\w+)+ for the whole of names_str
NamesShaped(names_str) ==
    LET names == split(names_str, <<",">>)
    IN /\ Len(names) >= 2
       /\ \A k \in 1..Len(names) :
              /\ strip(names[k]) # <<>>
              /\ \A j \in 1..Len(strip(names[k])) : IsW(strip(names[k])[j])

\* the fields of names_str.split(','), all with the attributes of f
RECURSIVE NamedFields(_, _)
NamedFields(names, f) ==
    IF names = <<>> THEN <<>>
    ELSE (IF _is_valid_field_name(strip(names[1]))
          THEN <<[f EXCEPT !.name = strip(names[1])]>> ELSE <<>>)
         \o NamedFields(Tail(names), f)

SVField(name, width, field_type, data_type, is_signed, is_array, array_size, is_enum) ==
    [name |-> name, width |-> width, field_type |-> field_type, data_type |-> data_type,
     is_signed |-> is_signed, is_array |-> is_array, array_size |-> array_size,
     is_enum |-> is_enum]

\* comma_match of the way w: None, or the fields of the declaration
CommaMatchWay(line, w) ==
    LET Fields_(h) ==
            IF h[5] = -1 \/ h[5] = 0 \/ ~isspace(At(line, h[5] - 1))
               \/ ~NamesShaped(From(line, h[5]))
            THEN None
            ELSE Some(NamedFields(split(From(line, h[5]), <<",">>),
                                  SVField(<<>>, BitWidth(line, w, h), FieldTypeOf(w[1]),
                                          Slice(line, h[1], h[2]), w[2], FALSE, None,
                                          FALSE)))
    IN Fields_(BitHead(line, w))

\* the first of the ways, in their order, that matches
comma_match(line) == FirstResult([k \in 1..Len(BitWays) |-> CommaMatchWay(line, BitWays[k])])

\* the ways of (rand|randc)? and (signed|unsigned)? in the patterns of the
\* integer types
IntWays ==
    <<<<<<"r","a","n","d">>, <<"s","i","g","n","e","d">>>>, <<<<"r","a","n","d">>, <<"u","n","s","i","g","n","e","d">>>>, <<<<"r","a","n","d">>, <<>>>>,
      <<<<"r","a","n","d","c">>, <<"s","i","g","n","e","d">>>>, <<<<"r","a","n","d","c">>, <<"u","n","s","i","g","n","e","d">>>>, <<<<"r","a","n","d","c">>, <<>>>>,
      <<<<>>, <<"s","i","g","n","e","d">>>>, <<<<>>, <<"u","n","s","i","g","n","e","d">>>>, <<<<>>, <<>>>>>>

IntTypes == {<<"i","n","t">>, <<"b","y","t","e">>, <<"s","h","o","r","t","i","n","t">>, <<"l","o","n","g","i","n","t">>}

WIDTH_MAP(data_type) ==
    CASE data_type = <<"b","y","t","e">> -> 8
      [] data_type = <<"s","h","o","r","t","i","n","t">> -> 16
      [] data_type = <<"i","n","t">> -> 32
      [] data_type = <<"l","o","n","g","i","n","t">> -> 64

\* int_comma_match of the way w:
\* ^\s*(rand|randc)?\s*(int|byte|shortint|longint)\b\s*(signed|unsigned)?\s+(names)\s*$
IntCommaMatchWay(line, w) ==
    LET p1 == RandPrefix(line, w[1])
        p2 == TypeEnd(line, p1, IntTypes)
        Fields_(e) ==
            IF e = -1 \/ e = 0 \/ ~isspace(At(line, e - 1)) \/ ~NamesShaped(From(line, e))
            THEN None
            ELSE Some(NamedFields(split(From(line, e), <<",">>),
                                  SVField(<<>>, WIDTH_MAP(Slice(line, p1, p2)),
                                          FieldTypeOf(w[1]), Slice(line, p1, p2),
                                          w[2] # <<"u","n","s","i","g","n","e","d">>, FALSE, None, FALSE)))
    IN Fields_(Star(line, Lit(line, Star(line, p2, SpaceCh), w[2]), SpaceCh))

int_comma_match(line) ==
    FirstResult([k \in 1..Len(IntWays) |-> IntCommaMatchWay(line, IntWays[k])])

\* the field, if its name is valid
ValidField(f) == IF _is_valid_field_name(f.name) THEN <<f>> ELSE <<>>

\* the first of the patterns, taken the way w:
\* ...\s*(\w+)\s*(?:\[(\d+)\]|\[\])?\s*$ behind the head, and _parse_bit_field
BitMatchWay(line, w) ==
    LET Field(h, name_end) ==
            LET a == Star(line, name_end, SpaceCh)
                sized == Lit(line, Plus(line, Lit(line, a, <<"[">>), Digit), <<"]">>)
                empty == Lit(line, a, <<"[","]">>)
                array_size == IF sized # -1 THEN Some(int(Slice(line, a + 1, sized - 1)))
                              ELSE None
                e == Star(line, IF sized # -1 THEN sized
                                ELSE IF empty # -1 THEN empty ELSE a, SpaceCh)
            IN IF name_end = -1 \/ e # Len(line) THEN None
               ELSE Some(ValidField(
                        SVField(Slice(line, h[5], name_end), BitWidth(line, w, h),
                                FieldTypeOf(w[1]), Slice(line, h[1], h[2]), w[2],
                                array_size # None \/ contains(line \o <<";">>, <<"[","]">>),
                                array_size, FALSE)))
        Named(h) == Field(h, Plus(line, h[5], WordCh))
    IN Named(BitHead(line, w))

\* the second of the patterns, taken the way w, and _parse_int_field:
\* ^\s*(rand|randc)?\s*(int|byte|shortint|longint)\b(?:\s+(signed|unsigned))?\s+(\w+)\s*$
IntMatchWay(line, w) ==
    LET p1 == RandPrefix(line, w[1])
        p2 == TypeEnd(line, p1, IntTypes)
        Field(n, e) ==
            IF e # Len(line) THEN None
            ELSE Some(ValidField(
                     SVField(Slice(line, n, e), WIDTH_MAP(Slice(line, p1, p2)),
                             FieldTypeOf(w[1]), Slice(line, p1, p2), w[2] # <<"u","n","s","i","g","n","e","d">>,
                             FALSE, None, FALSE)))
        Named(n) == Field(n, Plus(line, n, WordCh))
    IN Named(Plus(line, Taken(w[2] # <<>>, p2, Lit(line, Plus(line, p2, SpaceCh), w[2])),
                  SpaceCh))

\* the third of the patterns, with rand taken for its first group, and
\* _parse_enum_field: ^\s*(rand|randc)?\s*(\w+_[et])\s+(\w+)\s*$
EnumMatchWay(line, rand) ==
    LET p1 == RandPrefix(line, rand)
        Field(t, n, e) ==
            IF e # Len(line) \/ t - p1 < 3 \/ At(line, t - 2) # "_"
               \/ At(line, t - 1) \notin {"e", "t"}
            THEN None
            ELSE Some(ValidField(
                     SVField(Slice(line, n, e), 32, FieldTypeOf(rand), Slice(line, p1, t),
                             FALSE, FALSE, None, TRUE)))
        Named(t, n) == Field(t, n, Plus(line, n, WordCh))
        Typed(t) == Named(t, Plus(line, t, SpaceCh))
    IN Typed(Plus(line, p1, WordCh))

\* the loop over the three patterns: the fields of the first that matches
StandardMatch(line) ==
    FirstResult([k \in 1..Len(BitWays) |-> BitMatchWay(line, BitWays[k])]
                \o [k \in 1..Len(IntWays) |-> IntMatchWay(line, IntWays[k])]
                \o <<EnumMatchWay(line, <<"r","a","n","d">>), EnumMatchWay(line, <<"r","a","n","d","c">>),
                     EnumMatchWay(line, <<>>)>>)

\* the body of the loop of _extract_fields for one part of the split at ';':
\* the fields it appends
LineFields(part) ==
    LET Matched(line, comma, int_comma) ==
            IF comma # None THEN comma[1]
            ELSE IF int_comma # None THEN int_comma[1]
            ELSE LET First(r) == IF r = None THEN <<>> ELSE r[1]
                 IN First(StandardMatch(line))
        Of(line) ==
            IF line = <<>> \/ (\E kw \in skip_keywords : contains(line, kw))
               \/ line \in {<<"}">>, <<"{">>, <<"}"," ","e","l","s","e"," ","{">>} \/ startswith(line, <<"/","/">>)
            THEN <<>>
            ELSE Matched(line, comma_match(line), int_comma_match(line))
    IN Of(strip(SubLineComments(part, 0)))

RECURSIVE FieldsOfParts(_)
FieldsOfParts(parts) ==
    IF parts = <<>> THEN <<>> ELSE LineFields(parts[1]) \o FieldsOfParts(Tail(parts))

_extract_fields(class_body) ==
    FieldsOfParts(split(_remove_blocks_for_field_extraction(class_body), <<";">>))

\* SVParser._extract_fields(body)
ExtractFields ==
    /\ pc = "input"
    /\ fields' = _extract_fields(body)
    /\ pc' = "fields extracted"
    /\ UNCHANGED <<body, statements, lines, review, enum_value_map, enum_class_names, warnings, run>>

(***************************************************************************)
(* Which declarations give a field                                         *)
(***************************************************************************)
\* names of fields: plain ones, ones with a keyword inside, a reserved word,
\* one with a leading underscore and one that is not shaped as an identifier
DeclaredNames == {<<"w","i","d","t","h">>, <<"e","l","s","e","w","h","e","r","e">>, <<"u","n","i","q","u","e","_","i","d">>, <<"e","n","d">>, <<"_","t","m","p">>, <<"2","x">>}

\* the declared names of the declarations of a class body: one name, or two
\* in a declaration with a comma
NameLists == {<<n>> : n \in DeclaredNames}
             \cup {<<n1, n2>> : n1 \in {<<"w","i","d","t","h">>, <<"e","n","d">>, <<"e","l","s","e","w","h","e","r","e">>},
                                n2 \in {<<"l","e","n">>, <<"_","t","m","p">>}}

\* the text before the names of a declaration
DeclarationHeads == {<<"r","a","n","d"," ","b","i","t"," ","[","7",":","0","]"," ">>, <<"i","n","t"," ">>}

\* `head n1, n2;`
Declaration(head, names) == head \o join(<<","," ">>, names) \o <<";">>

\* a class body of two declarations, each on its line
ClassBody(h1, names1, h2, names2) ==
    Declaration(h1, names1) \o <<"\n">> \o Declaration(h2, names2)

ClassBodies ==
    {ClassBody(<<"r","a","n","d"," ","b","i","t"," ","[","7",":","0","]"," ">>, names1, h2, names2) :
        names1 \in {<<n>> : n \in DeclaredNames}, h2 \in DeclarationHeads,
        names2 \in NameLists}

InitFields == Start(ClassBodies)

NextFields == ExtractFields

SpecFields == InitFields /\ [][NextFields]_vars

\* the names of names that pass the three checks on the name of a field
RECURSIVE ValidNames(_)
ValidNames(names) ==
    IF names = <<>> THEN <<>>
    ELSE (IF /\ IdentifierShaped(names[1])
             /\ names[1] \notin invalid_names
             /\ names[1][1] # "_"
          THEN <<names[1]>> ELSE <<>>)
         \o ValidNames(Tail(names))

\* C13: a declaration that matches a field pattern is dropped only when its
\* name fails the identifier-shape check, is in the reserved-word blocklist
\* or begins with an underscore: the fields extracted from a class body are
\* the fields of the other declared names, one each and in source order.
C13_FieldPerDeclaredName ==
    \A names1 \in NameLists, names2 \in NameLists, h2 \in DeclarationHeads :
        (body = ClassBody(<<"r","a","n","d"," ","b","i","t"," ","[","7",":","0","]"," ">>, names1, h2, names2)
         /\ pc = "fields extracted")
        => [k \in 1..Len(fields) |-> fields[k].name] = ValidNames(names1 \o names2)

(***************************************************************************)
(* The auditor: _validate_constraint_translation                           *)
(***************************************************************************)
\* text.count(p), from start on
RECURSIVE CountFrom(_, _, _)
CountFrom(text, p, start) ==
    LET Next_(i) == IF i = -1 THEN 0 ELSE 1 + CountFrom(text, p, i + Len(p))
    IN Next_(find(text, p, start))

\* solve\s+(\w+)\s+before\s+(\w+) at position k: the ends of `solve `, of the
\* first name, of ` before ` and of the second name (-1: no match)
SolveMatch(text, k) ==
    LET p1 == Plus(text, Lit(text, k, <<"s","o","l","v","e">>), SpaceCh)
        p2 == Plus(text, p1, WordCh)
        p3 == Plus(text, Lit(text, Plus(text, p2, SpaceCh), <<"b","e","f","o","r","e">>), SpaceCh)
    IN <<p1, p2, p3, Plus(text, p3, WordCh)>>

\* re.findall(r'solve\s+(\w+)\s+before\s+(\w+)', text), from start on
RECURSIVE SolveMatchesFrom(_, _)
SolveMatchesFrom(text, start) ==
    LET Found(k) ==
            LET Pair(m) == <<<<Slice(text, m[1], m[2]), Slice(text, m[3], m[4])>>>>
                           \o SolveMatchesFrom(text, m[4])
            IN IF k = -1 THEN <<>> ELSE Pair(SolveMatch(text, k))
    IN Found(Least({k \in start..(Len(text) - 1) : SolveMatch(text, k)[4] # -1}))

\* the variables of re.findall(r'(\w+)\s+inside\s*\{([^}]+)\}', text), from
\* start on
RECURSIVE InsideVarsFrom(_, _)
InsideVarsFrom(text, start) ==
    LET Found(k) ==
            LET Var(e) == <<Slice(text, k, e)>>
                          \o InsideVarsFrom(text, InsideClose(text, e) + 1)
            IN IF k = -1 THEN <<>> ELSE Var(Plus(text, k, WordCh))
    IN Found(Least({k \in start..(Len(text) - 1) :
                       InsideClose(text, Plus(text, k, WordCh)) # -1}))

\* the issues about solve_order statements
RECURSIVE MissingSolves(_, _)
MissingSolves(solve_matches, generated_code) ==
    IF solve_matches = <<>> THEN <<>>
    ELSE (IF ~contains(generated_code, <<"v","s","c",".","s","o","l","v","e","_","o","r","d","e","r","(","s","e","l","f",".">> \o solve_matches[1][1])
          THEN <<<<" "," ","-"," ","M","i","s","s","i","n","g",":"," ","s","o","l","v","e"," ">> \o solve_matches[1][1] \o <<" ","b","e","f","o","r","e"," ">>
                 \o solve_matches[1][2]>>
          ELSE <<>>)
         \o MissingSolves(Tail(solve_matches), generated_code)

SolveIssues(name, solve_matches, actual_solves, generated_code) ==
    IF actual_solves < Len(solve_matches)
    THEN <<<<"C","o","n","s","t","r","a","i","n","t"," ","'">> \o name \o <<"'",":"," ">> \o NatStr(Len(solve_matches) - actual_solves)
           \o <<" ","s","o","l","v","e","_","o","r","d","e","r"," ","s","t","a","t","e","m","e","n","t","(","s",")"," ","m","a","y"," ","b","e"," ","m","i","s","s","i","n","g">>>>
         \o MissingSolves(solve_matches, generated_code)
    ELSE <<>>

\* the issues about inside constraints
RECURSIVE InsideIssues(_, _, _)
InsideIssues(name, vars_, generated_code) ==
    IF vars_ = <<>> THEN <<>>
    ELSE (IF /\ ~contains(generated_code,
                          <<"s","e","l","f",".">> \o vars_[1] \o <<" ","i","n"," ","v","s","c",".","r","a","n","g","e","l","i","s","t","(">>)
             /\ \A k \in 0..(Len(generated_code) - 1) :
                    Lit(generated_code,
                        Plus(generated_code,
                             Lit(generated_code,
                                 Plus(generated_code,
                                      Lit(generated_code, k, <<"s","e","l","f",".">> \o vars_[1]),
                                      SpaceCh),
                                 <<"i","n">>),
                             SpaceCh),
                        <<"v","s","c",".","r","a","n","g","e","l","i","s","t">>) = -1
          THEN <<<<"C","o","n","s","t","r","a","i","n","t"," ","'">> \o name \o <<"'",":"," ","'","i","n","s","i","d","e","'"," ","f","o","r"," ","'">> \o vars_[1]
                 \o <<"'"," ","m","a","y"," ","b","e"," ","m","i","s","s","i","n","g">>>>
          ELSE <<>>)
         \o InsideIssues(name, Tail(vars_), generated_code)

\* sv_keywords of _validate_constraint_translation
validate_sv_keywords == sv_keywords \ {<<"t","h","i","s">>}

\* the part of the generated code that holds the method of the constraint,
\* behind its docstring: <<code_section>>, or None when the method or the
\* end of its docstring is not found
CodeSection(name, generated_code) ==
    LET Behind(section) ==
            LET End(docstring_end) ==
                    IF docstring_end = -1 THEN None
                    ELSE Some(From(section, docstring_end + 3))
            IN End(find(section, <<"\"","\"","\"">>, find(section, <<"\"","\"","\"">>, 0) + 3))
        Cut(constraint_start, next_def, banner) ==
            IF constraint_start = -1 THEN None
            ELSE Behind(Slice(generated_code, constraint_start,
                              IF next_def # -1 THEN next_def
                              ELSE IF banner # -1 THEN banner
                              ELSE Len(generated_code)))
        Method(constraint_start) ==
            Cut(constraint_start,
                find(generated_code, <<"\n"," "," "," "," ","d","e","f"," ">>, constraint_start + 1),
                find(generated_code, <<"\n","#"," ","=","=","=">>, constraint_start + 1))
    IN Method(find(generated_code, <<"d","e","f"," ">> \o name \o <<"(","s","e","l","f",")",":">>, 0))

\* the fields among the identifiers of the constraint that the loop over the
\* identifiers reports
MissingIdentifiers(name, constraint_body, generated_code, field_names) ==
    LET In(code_section) ==
            IF code_section = None THEN {}
            ELSE {ident \in (Identifiers(constraint_body) \ validate_sv_keywords)
                            \cap field_names :
                     /\ ~contains(code_section[1], <<"s","e","l","f",".">> \o ident)
                     /\ ~contains(code_section[1], ident)}
    IN In(CodeSection(name, generated_code))

RECURSIVE VariableIssues(_, _)
VariableIssues(name, idents) ==
    IF idents = <<>> THEN <<>>
    ELSE <<<<"C","o","n","s","t","r","a","i","n","t"," ","'">> \o name \o <<"'",":"," ","v","a","r","i","a","b","l","e"," ","'">> \o idents[1]
           \o <<"'"," ","m","a","y"," ","b","e"," ","m","i","s","s","i","n","g"," ","f","r","o","m"," ","t","r","a","n","s","l","a","t","e","d"," ","c","o","d","e">>>>
         \o VariableIssues(name, Tail(idents))

\* the orders in which a loop over a set can pass over its members
Orderings(S) ==
    {order \in [1..Cardinality(S) -> S] :
        \A i, j \in 1..Cardinality(S) : i # j => order[i] # order[j]}

\* The issues of a constraint, the loop over the set of identifiers passing
\* over the reported ones in the order idents.
_validate_constraint_translation(name, constraint_body, generated_code, idents) ==
    SolveIssues(name, SolveMatchesFrom(constraint_body, 0),
                CountFrom(generated_code, <<"v","s","c",".","s","o","l","v","e","_","o","r","d","e","r","(">>, 0), generated_code)
    \o InsideIssues(name, InsideVarsFrom(constraint_body, 0), generated_code)
    \o VariableIssues(name, idents)

RECURSIVE AddWarnings(_, _)
AddWarnings(wn, issues) ==
    IF issues = <<>> THEN wn
    ELSE AddWarnings(_add_warning(wn, issues[1]), Tail(issues))

\* the names of the fields of a class
FieldNames(fs) == {fs[k].name : k \in 1..Len(fs)}

\* The validation of a generated constraint in generate: the issues of
\* _validate_constraint_translation become warnings.  The generated code is
\* the method of the constraint, without the class around it.
ValidateConstraintTranslation ==
    /\ pc = "generated"
    /\ \E idents \in Orderings(MissingIdentifiers(constraint_name, body,
                                                  join(<<"\n">>, lines), FieldNames(fields))) :
           warnings' = AddWarnings(warnings,
                                   _validate_constraint_translation(
                                       constraint_name, body, join(<<"\n">>, lines), idents))
    /\ pc' = "validated"
    /\ UNCHANGED <<body, statements, lines, review, enum_value_map, enum_class_names, fields, run>>

(***************************************************************************)
(* What the auditor reports of the fields of a constraint                  *)
(***************************************************************************)
\* the field of the two bounds, and a second field: plain names, the name of
\* a loop index, a name shaped as a number literal, a name in capitals
BoundedFields == {<<"w","i","d","t","h">>, <<"l","e","n">>}
SecondFields == {<<"x">>, <<"i">>, <<"d","0">>, <<"M","O","D","E">>, <<"y","_","1">>}

\* `f >= 1 && f <= 255 && v == 2;`, `f == v;` and `f >= 1; v <= 5;`
AuditBodies(f, v) ==
    {ExtendedRange(f, 1, 255, <<" ","&","&"," ">> \o v \o <<" ","=","="," ","2">>),
     f \o <<" ","=","="," ">> \o v \o <<";">>,
     f \o <<" ",">","="," ","1",";"," ">> \o v \o <<" ","<","="," ","5",";">>}

\* a field `rand bit [7:0] name;` as the parser gives it
ByteField(name) == SVField(name, 8, <<"r","a","n","d">>, <<"b","i","t">>, FALSE, FALSE, None, FALSE)

\* a class with the field f, with or without a declaration of v, and a
\* constraint c1 over the two
InitAudit ==
    \E f \in BoundedFields, v \in SecondFields :
        /\ pc = "input"
        /\ body \in AuditBodies(f, v)
        /\ fields \in {<<ByteField(f), ByteField(v)>>, <<ByteField(f)>>}
        /\ statements = <<>>
        /\ lines = <<>>
        /\ review = <<>>
        /\ warnings = <<>>
        /\ enum_value_map = <<>>
        /\ enum_class_names = {}
        /\ RunInit

NextAudit == GenerateConstraint \/ ValidateConstraintTranslation

SpecAudit == InitAudit /\ [][NextAudit]_vars

\* a warning of the constraint c1 names the variable v as missing
ReportedMissing(v) ==
    LET listed == <<"C","o","n","s","t","r","a","i","n","t"," ","'">> \o constraint_name \o <<"'",":"," ","V","a","r","i","a","b","l","e","s"," ","m","i","s","s","i","n","g"," ","i","n"," ","o","u","t","p","u","t",":"," ">>
    IN \E k \in 1..Len(warnings) :
           \/ warnings[k] = <<"C","o","n","s","t","r","a","i","n","t"," ","'">> \o constraint_name \o <<"'",":"," ","v","a","r","i","a","b","l","e"," ","'">> \o v
                            \o <<"'"," ","m","a","y"," ","b","e"," ","m","i","s","s","i","n","g"," ","f","r","o","m"," ","t","r","a","n","s","l","a","t","e","d"," ","c","o","d","e">>
           \/ /\ startswith(warnings[k], listed)
              /\ \E j \in 1..Len(split(From(warnings[k], Len(listed)), <<",">>)) :
                     strip(split(From(warnings[k], Len(listed)), <<",">>)[j]) = v

\* C14: once a constraint is generated as a method and validated, every
\* declared field that occurs as an identifier in the constraint body either
\* is referenced as self.<name> in the lines of the method or is named in a
\* missing-variable warning of that constraint.
C14_FieldReferencedOrReported ==
    pc = "validated"
    => \A name \in FieldNames(fields) \cap Identifiers(body) :
           \/ name \in SelfVarsFrom(join(<<"\n">>, lines), 0)
           \/ ReportedMissing(name)

(***************************************************************************)
(* XML_to_sv_Converter: the entities of the markup                         *)
(***************************************************************************)
\* _XML_ENTITY_MAP, as <<entity, character>>
_XML_ENTITY_MAP ==
    {<<<<"&","l","t",";">>, <<"<">>>>, <<<<"&","g","t",";">>, <<">">>>>, <<<<"&","a","m","p",";">>, <<"&">>>>,
     <<<<"&","a","p","o","s",";">>, <<"'">>>>, <<<<"&","q","u","o","t",";">>, <<"\"">>>>}

\* the entity that _XML_ENTITY_RE matches at position k of line, as a set
EntityAt(line, k) == {e \in _XML_ENTITY_MAP : HasAt(line, k, e[1])}

\* _XML_ENTITY_RE.sub(_entity_replacer, line), from start on
RECURSIVE DecodeFrom(_, _)
DecodeFrom(line, start) ==
    IF start >= Len(line) THEN <<>>
    ELSE LET Replaced(i, e) ==
                 Slice(line, start, i) \o e[2] \o DecodeFrom(line, i + Len(e[1]))
             Found(i) == IF i = -1 THEN From(line, start)
                         ELSE Replaced(i, CHOOSE e \in EntityAt(line, i) : TRUE)
         IN Found(Least({k \in start..(Len(line) - 1) : EntityAt(line, k) # {}}))

_decode_entities(ls) == [k \in 1..Len(ls) |-> DecodeFrom(ls[k], 0)]

\* _decode_entities of a line of the document
DecodeEntities ==
    /\ pc = "input"
    /\ lines' = _decode_entities(<<body>>)
    /\ pc' = "decoded"
    /\ UNCHANGED <<body, statements, review, enum_value_map, enum_class_names, others>>

\* _decode_entities of its own output
DecodeEntitiesAgain ==
    /\ pc = "decoded"
    /\ lines' = _decode_entities(lines)
    /\ pc' = "decoded again"
    /\ UNCHANGED <<body, statements, review, enum_value_map, enum_class_names, others>>

\* _convert_numbers of an expression
ConvertNumbers ==
    /\ pc = "input"
    /\ lines' = <<_convert_numbers(body)>>
    /\ pc' = "converted"
    /\ UNCHANGED <<body, statements, review, enum_value_map, enum_class_names, others>>

\* _convert_numbers of its own output
ConvertNumbersAgain ==
    /\ pc = "converted"
    /\ lines' = <<_convert_numbers(lines[1])>>
    /\ pc' = "converted again"
    /\ UNCHANGED <<body, statements, review, enum_value_map, enum_class_names, others>>

(***************************************************************************)
(* Decoding twice                                                          *)
(***************************************************************************)
\* the most pieces of a text
MaxPieces == 3

\* pieces of texts with entities and with number literals
EntityPieces == {<<"&","a","m","p",";">>, <<"&","l","t",";">>, <<"l","t",";">>, <<"a">>, <<" ","&","&"," ">>}
NumberPieces == {<<"8","'","h">>, <<"4","'","d">>, <<"F">>, <<"1","_","0">>, <<" ","+"," ","x">>}

\* the texts of one to MaxPieces pieces
RECURSIVE TextsOf(_, _)
TextsOf(pieces, n) ==
    IF n = 0 THEN {<<>>}
    ELSE {<<>>} \cup {p \o t : p \in pieces, t \in TextsOf(pieces, n - 1)}

DecodedTexts == (TextsOf(EntityPieces, MaxPieces) \cup TextsOf(NumberPieces, MaxPieces))
                \ {<<>>}

InitDecoding == Start(DecodedTexts)

NextDecoding ==
    \/ DecodeEntities
    \/ DecodeEntitiesAgain
    \/ ConvertNumbers
    \/ ConvertNumbersAgain

SpecDecoding == InitDecoding /\ [][NextDecoding]_vars

\* C15: decoding is idempotent: the entity decoder applied to its own output
\* changes nothing, and the number converter applied to its own output
\* changes nothing.
C15_DecodingIdempotent ==
    [][(pc \in {"decoded", "converted"}) => (lines' = lines)]_vars

(***************************************************************************)
(* The loop index of a foreach                                             *)
(***************************************************************************)
LoopArrays == {<<"a","r","r">>, <<"d","a","t","a">>}
LoopIndexes == {<<"i">>, <<"k","2">>}

\* the fields, besides the array, that the statements of a foreach name
LoopFields == {<<"x">>, <<"l","o">>, <<"h","i">>}

\* the statements in the body of a foreach over a[idx]
InnerStatements(a, idx) ==
    {a \o <<"[">> \o idx \o <<"]"," ","=","="," ">> \o idx \o <<";">>,
     a \o <<"[">> \o idx \o <<"]"," ","<"," ","x"," ","+"," ">> \o idx \o <<";">>,
     a \o <<"[">> \o idx \o <<"]"," ","i","n","s","i","d","e"," ","{","[","l","o",":","h","i","]","}",";">>,
     <<"i","f"," ","(","x",")"," ","{"," ">> \o a \o <<"[">> \o idx \o <<"]"," ","=","="," ">> \o idx \o <<";"," ","}">>,
     <<"x"," ","-",">"," ">> \o a \o <<"[">> \o idx \o <<"]"," ","=","="," ">> \o idx \o <<";">>}

\* `foreach (a[idx]) { inner }`, or without the braces, and what follows it
ForeachStatement(a, idx, inner, braces, after) ==
    <<"f","o","r","e","a","c","h"," ","(">> \o a \o <<"[">> \o idx \o <<"]",")"," ">>
    \o (IF braces THEN <<"{"," ">> \o inner \o <<" ","}">> ELSE inner) \o after

\* a statement behind the foreach that names a field called as the index
AfterForeach(idx) == {<<>>, <<" ">> \o idx \o <<" ","=","="," ","1",";">>}

ForeachBodies ==
    {ForeachStatement(a, idx, inner, braces, after) :
        a \in LoopArrays, idx \in LoopIndexes, braces \in BOOLEAN,
        inner \in UNION {InnerStatements(a2, idx2) : a2 \in LoopArrays, idx2 \in LoopIndexes},
        after \in UNION {AfterForeach(idx2) : idx2 \in LoopIndexes}}

InitForeach == Start(ForeachBodies)

NextForeach == TranslateStatement \/ TranslateConstraintBody

SpecForeach == InitForeach /\ [][NextForeach]_vars

\* the positions of line at which the identifier name stands
Occurrences(line, name) ==
    {k \in 0..(Len(line) - Len(name)) :
        /\ HasAt(line, k, name)
        /\ (k = 0 \/ ~IsW(At(line, k - 1)))
        /\ (k + Len(name) = Len(line) \/ ~IsW(At(line, k + Len(name))))}

\* the identifier at position k of line is written self.<name>
Prefixed(line, k) == k >= 5 /\ HasAt(line, k - 5, <<"s","e","l","f",".">>)

\* C16: in the translation of a foreach, the name of the loop index stands
\* without the self. prefix in every line of the foreach while every other
\* field named there stands with it, and a statement behind the foreach
\* that names a field called as the index gets the prefix.
C16_IndexBareInForeachOnly ==
    \A a \in LoopArrays, idx \in LoopIndexes, braces \in BOOLEAN :
        \A inner \in InnerStatements(a, idx), after \in AfterForeach(idx) :
            (body = ForeachStatement(a, idx, inner, braces, after)
             /\ pc = "body translated")
            => /\ lines # <<>>
               /\ \A n \in 1..(Len(lines) - (IF after = <<>> THEN 0 ELSE 1)) :
                      /\ \A k \in Occurrences(lines[n], idx) : ~Prefixed(lines[n], k)
                      /\ \A f \in LoopFields \cup {a} :
                             \A k \in Occurrences(lines[n], f) : Prefixed(lines[n], k)
               /\ after # <<>> => lines[Len(lines)] = <<"s","e","l","f",".">> \o idx \o <<" ","=","="," ","1">>

(***************************************************************************)
(* SVParser.parse: comments, enum definitions, classes                     *)
(***************************************************************************)
\* re.sub(r'/\*.*?\*/', '', code, flags=re.DOTALL), from position start on
RECURSIVE RemoveBlockComments(_, _)
RemoveBlockComments(code, start) ==
    LET opened == find(code, <<"/","*">>, start)
        closed == IF opened = -1 THEN -1 ELSE find(code, <<"*","/">>, opened + 2)
    IN IF closed = -1 THEN From(code, start)
       ELSE Slice(code, start, opened) \o RemoveBlockComments(code, closed + 2)

\* re.sub(r'//.*$', '', code, flags=re.MULTILINE), from position start on
RECURSIVE RemoveLineComments(_, _)
RemoveLineComments(code, start) ==
    LET opened == find(code, <<"/","/">>, start)
        line_end == IF opened = -1 THEN -1 ELSE find(code, <<"\n">>, opened)
    IN IF opened = -1 THEN From(code, start)
       ELSE IF line_end = -1 THEN Slice(code, start, opened)
       ELSE Slice(code, start, opened) \o RemoveLineComments(code, line_end)

_remove_comments(code) == RemoveLineComments(RemoveBlockComments(code, 0), 0)

\* int() of a text that is no literal of the base raises ValueError
InvalidLiteral == <<"ValueError", "invalid literal for int()">>

DigitsOfBase == <<"0","1","2","3","4","5","6","7","8","9","a","b","c","d","e","f">>
UpperDigits == <<"0","1","2","3","4","5","6","7","8","9","A","B","C","D","E","F">>

\* the value of the digit c in the base, or -1
DigitOf(c, base) ==
    Least({d \in 0..(base - 1) : DigitsOfBase[d + 1] = c \/ UpperDigits[d + 1] = c})

\* the value of digits, which has single underscores between the digits of
\* the base only, after the value acc of the digits before it; -1 otherwise
RECURSIVE DigitsValue(_, _, _)
DigitsValue(digits, base, acc) ==
    IF digits = <<>> THEN acc
    ELSE IF digits[1] = "_"
         THEN IF Len(digits) = 1 \/ digits[2] = "_" THEN -1
              ELSE DigitsValue(Tail(digits), base, acc)
    ELSE IF DigitOf(digits[1], base) = -1 THEN -1
    ELSE DigitsValue(Tail(digits), base, acc * base + DigitOf(digits[1], base))

\* int(text, base) for the bases 2, 8, 10 and 16: Some(n), or InvalidLiteral
IntOfBase(text, base) ==
    LET s == strip(text)
        signed == s # <<>> /\ s[1] \in {"+", "-"}
        unsigned == IF signed THEN Tail(s) ELSE s
        letters == IF base = 16 THEN {"x", "X"} ELSE IF base = 8 THEN {"o", "O"}
                   ELSE IF base = 2 THEN {"b", "B"} ELSE {}
        prefixed == Len(unsigned) >= 2 /\ unsigned[1] = "0" /\ unsigned[2] \in letters
        digits == IF prefixed THEN From(unsigned, 2) ELSE unsigned
        \* an underscore may follow the prefix, and cannot begin a literal
        checked == IF prefixed /\ digits # <<>> /\ digits[1] = "_" THEN Tail(digits)
                   ELSE digits
        n == IF checked = <<>> \/ checked[1] = "_" THEN -1 ELSE DigitsValue(checked, base, 0)
    IN IF n = -1 THEN InvalidLiteral
       ELSE IF signed /\ s[1] = "-" THEN Some(-n)
       ELSE Some(n)

base_map(c) ==
    IF c \in {"h", "H"} THEN 16
    ELSE IF c \in {"b", "B"} THEN 2
    ELSE IF c \in {"o", "O"} THEN 8
    ELSE IF c \in {"d", "D"} THEN 10
    ELSE 0

\* Some(n), or InvalidLiteral where int() raises
_parse_number(num_str0) ==
    LET stripped == strip(num_str0)
        sized == Lit(stripped, Plus(stripped, 0, Digit), <<"'">>)
        num_str == IF sized = -1 THEN stripped ELSE From(stripped, sized)
        based == num_str # <<>> /\ base_map(num_str[1]) # 0
    IN IntOfBase(IF based THEN Tail(num_str) ELSE num_str,
                 IF based THEN base_map(num_str[1]) ELSE 10)

\* A member is a pair <<name, value>>, its value None, or Some(n) for `name = n`.
\* The members values and the member of the part val, whose sign = is at eq
\* (-1: it has none) and for whose text behind the sign _parse_number gives
\* number: Some(list of the members), or InvalidLiteral if _parse_number raises.
WithMember(values, val, eq, number) ==
    IF eq = -1 THEN Some(Append(values, <<val, None>>))
    ELSE IF IsRaised(number) THEN InvalidLiteral
    ELSE Some(Append(values, <<strip(Slice(val, 0, eq)), number>>))

WithValue(values, val, eq) ==
    WithMember(values, val, eq,
               IF eq = -1 THEN None ELSE _parse_number(strip(From(val, eq + 1))))

\* one pass of the loop of _parse_enum_values, for the part val stripped
WithPart(values, val) ==
    IF val = <<>> THEN Some(values) ELSE WithValue(values, val, find(val, <<"=">>, 0))

\* The loop of _parse_enum_values over the parts vals, after the members
\* values[1]; values is InvalidLiteral once _parse_number has raised.
RECURSIVE EnumValuesOf(_, _)
EnumValuesOf(vals, values) ==
    IF vals = <<>> \/ IsRaised(values) THEN values
    ELSE EnumValuesOf(Tail(vals), WithPart(values[1], strip(Head(vals))))

_parse_enum_values(values_str) == EnumValuesOf(split(values_str, <<",">>), Some(<<>>))

\* typedef\s+enum(?:\s+\w+\s*(?:\[(\d+):0\])?)?\s*\{([^}]+)\}\s*(\w+)\s*;
\* at position i, with the base type group taken (typed) and the width in it
\* (ranged): None, or the groups and the end of the match
TypedefMatchWay(code, i, typed, ranged) ==
    LET p_enum == Lit(code, Plus(code, Lit(code, i, <<"t","y","p","e","d","e","f">>), SpaceCh), <<"e","n","u","m">>)
        p_type == Star(code, Plus(code, Plus(code, p_enum, SpaceCh), WordCh), SpaceCh)
        p_width == Plus(code, Lit(code, p_type, <<"[">>), Digit)
        p_head == IF ~typed THEN p_enum
                  ELSE IF ~ranged THEN p_type
                  ELSE Lit(code, p_width, <<":","0","]">>)
        p_values == Lit(code, Star(code, p_head, SpaceCh), <<"{">>)
        p_closed == PlusNot(code, p_values, {"}"})
        p_name == Star(code, Lit(code, p_closed, <<"}">>), SpaceCh)
        p_named == Plus(code, p_name, WordCh)
        p_end == Lit(code, Star(code, p_named, SpaceCh), <<";">>)
    IN IF p_end = -1 THEN None
       ELSE Some([width_str |-> IF typed /\ ranged
                                THEN Some(Slice(code, Lit(code, p_type, <<"[">>), p_width))
                                ELSE None,
                  values_str |-> Slice(code, p_values, p_closed),
                  name |-> Slice(code, p_name, p_named),
                  end |-> p_end])

TypedefMatch(code, i) ==
    FirstResult(<<TypedefMatchWay(code, i, TRUE, TRUE), TypedefMatchWay(code, i, TRUE, FALSE),
                  TypedefMatchWay(code, i, FALSE, FALSE)>>)

\* the next match of re.finditer among the matches ms, pairs of a position
\* and what matches there: None, or the match at the least position
NextMatch(ms) ==
    IF ms = {} THEN None ELSE (CHOOSE m \in ms : \A other \in ms : m[1] <= other[1])[2]

TypedefMatches(code, pos) ==
    {m \in {<<k, TypedefMatch(code, k)>> :
               k \in {j \in pos..(Len(code) - 1) : HasAt(code, j, <<"t","y","p","e","d","e","f">>)}} :
        m[2] # None}

SVEnum(name, values, width) == [name |-> name, values |-> values, width |-> width]

\* enums and the enum of a match, for whose values _parse_enum_values gives
\* values: Some(list of SVEnum), or InvalidLiteral if it raises
WithEnum(enums, match, values) ==
    IF IsRaised(values) THEN InvalidLiteral
    ELSE Some(Append(enums, SVEnum(match.name, values[1],
                                   IF match.width_str = None THEN 32
                                   ELSE int(match.width_str[1]) + 1)))

\* the loop over re.finditer of _extract_enums from position pos on, after
\* the list enums[1]; enums is InvalidLiteral once _parse_enum_values has raised
RECURSIVE EnumsFrom(_, _, _)
EnumsBehind(code, match, enums) ==
    IF match = None THEN enums
    ELSE EnumsFrom(code, match[1].end,
                   WithEnum(enums[1], match[1], _parse_enum_values(match[1].values_str)))

EnumsFrom(code, pos, enums) ==
    IF IsRaised(enums) THEN enums
    ELSE EnumsBehind(code, NextMatch(TypedefMatches(code, pos)), enums)

_extract_enums(code) == EnumsFrom(code, 0, Some(<<>>))

\* _check_constraint_warnings: the messages of the checks that find their
\* pattern in the body
_check_constraint_warnings(constraint_body) ==
    LET s == constraint_body
        Sliced(k) == Lit(s, Plus(s, Lit(s, Plus(s, Lit(s, k, <<"[">>), Digit), <<":">>), Digit),
                         <<"]">>) # -1
        bit_slice == \E k \in 1..(Len(s) - 1) : IsW(At(s, k - 1)) /\ Sliced(k)
        system_function == \E k \in 0..(Len(s) - 2) : At(s, k) = "$" /\ IsW(At(s, k + 1))
    IN (IF bit_slice
        THEN <<<<"B","i","t"," ","s","l","i","c","i","n","g"," ","d","e","t","e","c","t","e","d"," ","-"," ","r","e","q","u","i","r","e","s"," ","m","a","n","u","a","l"," ","c","o","n","v","e","r","s","i","o","n"," ","t","o"," ","s","h","i","f","t","s","/","m","a","s","k","s">>>>
        ELSE <<>>)
       \o (IF contains(s, <<"<","-",">">>)
           THEN <<<<"B","i","d","i","r","e","c","t","i","o","n","a","l"," ","i","m","p","l","i","c","a","t","i","o","n"," ","d","e","t","e","c","t","e","d"," ","-"," ","n","e","e","d","s"," ","t","w","o"," ","v","s","c",".","i","m","p","l","i","e","s","(",")"," ","c","a","l","l","s">>>>
           ELSE <<>>)
       \o (IF contains(s, <<"$","u","r","a","n","d","o","m">>)
           THEN <<<<"$","u","r","a","n","d","o","m"," ","d","e","t","e","c","t","e","d"," ","-"," ","u","s","e"," ","P","y","t","h","o","n"," ","r","a","n","d","o","m"," ","m","o","d","u","l","e"," ","i","n"," ","p","o","s","t","_","r","a","n","d","o","m","i","z","e">>>>
           ELSE <<>>)
       \o (IF system_function
           THEN <<<<"S","y","s","t","e","m"," ","f","u","n","c","t","i","o","n"," ","d","e","t","e","c","t","e","d"," ","-"," ","m","a","y"," ","n","e","e","d"," ","m","a","n","u","a","l"," ","h","a","n","d","l","i","n","g">>>>
           ELSE <<>>)

SVConstraint(name, constraint_body) ==
    [name |-> name, body |-> constraint_body,
     warnings |-> _check_constraint_warnings(constraint_body)]

\* constraint\s+(\w+)\s*\{ at position k: the position of the brace, or -1
ConstraintHead(s, k) ==
    LET p_brace == Star(s, Plus(s, Plus(s, Lit(s, k, <<"c","o","n","s","t","r","a","i","n","t">>), SpaceCh), WordCh),
                        SpaceCh)
    IN IF Lit(s, p_brace, <<"{">>) = -1 THEN -1 ELSE p_brace

\* the loop of _extract_constraints from position pos on
RECURSIVE ConstraintsFrom(_, _)
ConstraintsFrom(class_body, pos) ==
    LET s == class_body
        start_pos == Least({k \in pos..(Len(s) - 1) : ConstraintHead(s, k) # -1})
        brace_start == ConstraintHead(s, start_pos)
        name_start == start_pos + 10 + Span(s, start_pos + 10, SpaceCh)
        name == Slice(s, name_start, name_start + Span(s, name_start, WordCh))
        body_start == brace_start + 1
        \* the position of the brace at which brace_count gets to 0
        closing ==
            Least({j \in body_start..(Len(s) - 1) :
                      /\ At(s, j) = "}"
                      /\ Count(s, "{", body_start, j) = Count(s, "}", body_start, j)})
    IN IF pos >= Len(s) \/ start_pos = -1 THEN <<>>
       ELSE IF closing = -1 THEN ConstraintsFrom(s, brace_start + 1)
       ELSE <<SVConstraint(name, strip(Slice(s, body_start, closing)))>>
            \o ConstraintsFrom(s, closing + 1)

_extract_constraints(class_body) == ConstraintsFrom(class_body, 0)

\* function\s+(?:void\s+)?{func_name}\s*\(\s*\)\s*;(.*?)endfunction at
\* position k, with or without the void group: None, or the group stripped
FunctionMatchWay(s, k, func_name, void) ==
    LET p_function == Plus(s, Lit(s, k, <<"f","u","n","c","t","i","o","n">>), SpaceCh)
        p_void == IF void THEN Plus(s, Lit(s, p_function, <<"v","o","i","d">>), SpaceCh) ELSE p_function
        p_open == Lit(s, Star(s, Lit(s, p_void, func_name), SpaceCh), <<"(">>)
        p_semi == Lit(s, Star(s, Lit(s, Star(s, p_open, SpaceCh), <<")">>), SpaceCh), <<";">>)
        p_end == IF p_semi = -1 THEN -1 ELSE find(s, <<"e","n","d","f","u","n","c","t","i","o","n">>, p_semi)
    IN IF p_end = -1 THEN None ELSE Some(strip(Slice(s, p_semi, p_end)))

_extract_function(class_body, func_name) ==
    LET Way(k, void) == FunctionMatchWay(class_body, k, func_name, void)
        start == Least({k \in 0..(Len(class_body) - 1) :
                           /\ HasAt(class_body, k, <<"f","u","n","c","t","i","o","n">>)
                           /\ (Way(k, TRUE) # None \/ Way(k, FALSE) # None)})
    IN IF start = -1 THEN None ELSE FirstResult(<<Way(start, TRUE), Way(start, FALSE)>>)

\* class\s+(\w+)(?:\s+extends\s+(\w+))?\s*;(.*?)endclass at position k, with
\* or without the extends group: None, or the groups and the end of the match
ClassMatchWay(code, k, extends) ==
    LET p_name == Plus(code, Lit(code, k, <<"c","l","a","s","s">>), SpaceCh)
        p_named == Plus(code, p_name, WordCh)
        p_parent == Plus(code, Lit(code, Plus(code, p_named, SpaceCh), <<"e","x","t","e","n","d","s">>), SpaceCh)
        p_head == IF extends THEN Plus(code, p_parent, WordCh) ELSE p_named
        p_body == Lit(code, Star(code, p_head, SpaceCh), <<";">>)
        p_end == IF p_body = -1 THEN -1 ELSE find(code, <<"e","n","d","c","l","a","s","s">>, p_body)
    IN IF p_end = -1 THEN None
       ELSE Some([class_name |-> Slice(code, p_name, p_named),
                  parent_class |-> IF extends THEN Some(Slice(code, p_parent, p_head))
                                   ELSE None,
                  class_body |-> Slice(code, p_body, p_end),
                  end |-> p_end + 8])

ClassMatch(code, k) ==
    FirstResult(<<ClassMatchWay(code, k, TRUE), ClassMatchWay(code, k, FALSE)>>)

ClassMatches(code, pos) ==
    {m \in {<<k, ClassMatch(code, k)>> :
               k \in {j \in pos..(Len(code) - 1) : HasAt(code, j, <<"c","l","a","s","s">>)}} :
        m[2] # None}

SVClass(name, parent_class, class_body, enums) ==
    [name |-> name, parent_class |-> parent_class,
     fields |-> _extract_fields(class_body),
     constraints |-> _extract_constraints(class_body),
     enums |-> enums,
     pre_randomize |-> _extract_function(class_body, <<"p","r","e","_","r","a","n","d","o","m","i","z","e">>),
     post_randomize |-> _extract_function(class_body, <<"p","o","s","t","_","r","a","n","d","o","m","i","z","e">>)]

\* the loop over re.finditer of _extract_classes from position pos on
RECURSIVE ClassesFrom(_, _, _)
ClassesBehind(code, match, enums) ==
    IF match = None THEN <<>>
    ELSE <<SVClass(match[1].class_name, match[1].parent_class, match[1].class_body, enums)>>
         \o ClassesFrom(code, match[1].end, enums)

ClassesFrom(code, pos, enums) == ClassesBehind(code, NextMatch(ClassMatches(code, pos)), enums)

_extract_classes(code, enums) == ClassesFrom(code, 0, enums)

\* SVParser.parse after _extract_enums: Some(list of SVClass), or
\* InvalidLiteral where _extract_enums raises
ParsedClasses(code, enums) ==
    IF IsRaised(enums) THEN InvalidLiteral ELSE Some(_extract_classes(code, enums[1]))

ParsedCode(code) == ParsedClasses(code, _extract_enums(code))

\* SVParser.parse: Some(list of SVClass), or InvalidLiteral where it raises
parse(sv_code) == ParsedCode(_remove_comments(sv_code))

(***************************************************************************)
(* PyVSCGenerator.generate: the parts of the generated text                *)
(***************************************************************************)
LowerCase == <<"a","b","c","d","e","f","g","h","i","j","k","l","m","n","o","p","q","r","s","t","u","v","w","x","y","z">>
UpperCase == <<"A","B","C","D","E","F","G","H","I","J","K","L","M","N","O","P","Q","R","S","T","U","V","W","X","Y","Z">>

\* s.lower() and s.upper() for a text of ASCII characters
lower(s) ==
    [k \in 1..Len(s) |-> IF s[k] \in Upper
                         THEN LowerCase[CHOOSE j \in 1..26 : UpperCase[j] = s[k]]
                         ELSE s[k]]
upper(s) ==
    [k \in 1..Len(s) |-> IF s[k] \in Lower
                         THEN UpperCase[CHOOSE j \in 1..26 : LowerCase[j] = s[k]]
                         ELSE s[k]]

capitalize(s) == IF s = <<>> THEN <<>> ELSE upper(<<s[1]>>) \o lower(Tail(s))

RECURSIVE Capitalized(_)
Capitalized(parts) ==
    IF parts = <<>> THEN <<>> ELSE capitalize(Head(parts)) \o Capitalized(Tail(parts))

\* for a name of word characters
_to_python_class_name(sv_name) ==
    LET name == IF endswith(sv_name, <<"_","t">>) \/ endswith(sv_name, <<"_","e">>)
                THEN SubSeq(sv_name, 1, Len(sv_name) - 2)
                ELSE sv_name
    IN Capitalized(split(name, <<"_">>))

_generate_header ==
    <<"#","!","/","u","s","r","/","b","i","n","/","e","n","v"," ","p","y","t","h","o","n","3","\n","\"","\"","\"","\n","A","u","t","o","-","g","e","n","e","r","a","t","e","d"," ","p","y","v","s","c"," ","t","r","a","n","s","l","a","t","i","o","n"," ","f","r","o","m"," ","S","y","s","t","e","m","V","e","r","i","l","o","g","\n","\n","I","M","P","O","R","T","A","N","T",":"," ","T","h","i","s"," ","i","s"," ","a"," ","S","U","G","G","E","S","T","E","D"," ","t","r","a","n","s","l","a","t","i","o","n"," ","t","h","a","t"," ","r","e","q","u","i","r","e","s"," ","m","a","n","u","a","l"," ","r","e","v","i","e","w",".","\n","P","l","e","a","s","e"," ","v","e","r","i","f","y",":","\n","1","."," ","A","l","l"," ","c","o","n","s","t","r","a","i","n","t"," ","s","e","m","a","n","t","i","c","s"," ","a","r","e"," ","p","r","e","s","e","r","v","e","d","\n","2","."," ","D","a","t","a"," ","t","y","p","e"," ","m","a","p","p","i","n","g","s"," ","a","r","e"," ","c","o","r","r","e","c","t","\n","3","."," ","D","i","s","t","r","i","b","u","t","i","o","n"," ","w","e","i","g","h","t","s"," ","m","a","t","c","h"," ","o","r","i","g","i","n","a","l"," ","i","n","t","e","n","t","\n","4","."," ","S","o","l","v","e"," ","o","r","d","e","r"," ","e","f","f","e","c","t","s"," ","a","r","e"," ","e","q","u","i","v","a","l","e","n","t","\n","\n","G","e","n","e","r","a","t","e","d"," ","b","y",":"," ","S","V","-","t","o","-","p","y","v","s","c"," ","T","r","a","n","s","l","a","t","i","o","n"," ","A","s","s","i","s","t","a","n","t","\n","\"","\"","\"">>

_generate_imports ==
    <<"i","m","p","o","r","t"," ","v","s","c","\n","f","r","o","m"," ","e","n","u","m"," ","i","m","p","o","r","t"," ","I","n","t","E","n","u","m","\n","i","m","p","o","r","t"," ","r","a","n","d","o","m","\n","f","r","o","m"," ","t","y","p","i","n","g"," ","i","m","p","o","r","t"," ","O","p","t","i","o","n","a","l">>

\* the loop of _generate_enum without `current_val += 1`: a member without
\* an explicit value gets the value of the member before it
RECURSIVE EnumLinesWithoutIncrement(_, _)
EnumLinesWithoutIncrement(values, current_val) ==
    IF values = <<>> THEN <<>>
    ELSE <<INDENT \o Head(values)[1] \o <<" ","="," ">>
           \o IntStr(IF Head(values)[2] # None THEN Head(values)[2][1] ELSE current_val)>>
         \o EnumLinesWithoutIncrement(Tail(values),
                                      IF Head(values)[2] # None THEN Head(values)[2][1]
                                      ELSE current_val)

\* the loop of _generate_enum over the members: a line for each
RECURSIVE EnumLines(_, _)
EnumLines(values, current_val) ==
    IF values = <<>> THEN <<>>
    ELSE LET name == Head(values)[1]
             val == Head(values)[2]
             member_val == IF val # None THEN val[1] ELSE current_val
         IN <<INDENT \o name \o <<" ","="," ">> \o IntStr(member_val)>>
            \o EnumLines(Tail(values), member_val + 1)

\* the text of the IntEnum; its mapping note is EnumNote
_generate_enum(enum) ==
    join(<<"\n">>,
         <<<<"c","l","a","s","s"," ">> \o _to_python_class_name(enum.name) \o <<"(","I","n","t","E","n","u","m",")",":">>,
           INDENT \o <<"\"","\"","\"","T","r","a","n","s","l","a","t","e","d"," ","f","r","o","m"," ","S","V"," ","e","n","u","m",":"," ">> \o enum.name \o <<"\"","\"","\"">>>>
         \o EnumLines(enum.values, 0))

EnumNote(enum) ==
    <<"E","n","u","m"," ","'">> \o enum.name \o <<"'"," ","-",">"," ","I","n","t","E","n","u","m"," ","'">> \o _to_python_class_name(enum.name) \o <<"'">>

\* the lines of _generate_base_class_stubs for the sorted parents
RECURSIVE StubLines(_)
StubLines(parents) ==
    IF parents = <<>> THEN <<>>
    ELSE <<<<"@","v","s","c",".","r","a","n","d","o","b","j">>,
           <<"c","l","a","s","s"," ">> \o _to_python_class_name(Head(parents)) \o <<":">>,
           INDENT \o <<"\"","\"","\"">>,
           INDENT \o <<"S","t","u","b"," ","f","o","r"," ">> \o Head(parents) \o <<" ","b","a","s","e"," ","c","l","a","s","s",".">>,
           INDENT \o <<"R","e","p","l","a","c","e"," ","w","i","t","h"," ","a","c","t","u","a","l"," ","i","m","p","l","e","m","e","n","t","a","t","i","o","n"," ","o","r"," ","i","m","p","o","r","t"," ","f","r","o","m"," ","y","o","u","r"," ","U","V","M"," ","l","i","b","r","a","r","y",".">>,
           INDENT \o <<"\"","\"","\"">>,
           INDENT \o <<"d","e","f"," ","_","_","i","n","i","t","_","_","(","s","e","l","f",")",":">>,
           INDENT \o INDENT \o <<"p","a","s","s"," "," ","#"," ","T","O","D","O",":"," ","A","d","d"," ","b","a","s","e"," ","c","l","a","s","s"," ","f","i","e","l","d","s"," ","i","f"," ","n","e","e","d","e","d">>,
           <<>>>>
         \o StubLines(Tail(parents))

RECURSIVE StubReviewItems(_, _)
StubReviewItems(parents, rv) ==
    IF parents = <<>> THEN rv
    ELSE StubReviewItems(Tail(parents),
             _add_review_item(rv, <<"B","a","s","e"," ","c","l","a","s","s"," ","'">> \o Head(parents)
                                  \o <<"'"," ","s","t","u","b"," ","g","e","n","e","r","a","t","e","d"," ","-"," ","r","e","p","l","a","c","e"," ","w","i","t","h"," ","a","c","t","u","a","l"," ","i","m","p","l","e","m","e","n","t","a","t","i","o","n">>))

RECURSIVE StubNotes(_)
StubNotes(parents) ==
    IF parents = <<>> THEN <<>>
    ELSE <<<<"G","e","n","e","r","a","t","e","d"," ","s","t","u","b"," ","f","o","r"," ","b","a","s","e"," ","c","l","a","s","s"," ","'">> \o Head(parents) \o <<"'"," ","-",">"," ","'">>
           \o _to_python_class_name(Head(parents)) \o <<"'">>>>
         \o StubNotes(Tail(parents))

\* the text of the stubs, the review items and the mapping notes after them
_generate_base_class_stubs(parent_classes, rv, notes) ==
    [code |-> join(<<"\n">>,
                   <<<<"#"," ","=","=","=","=","=","=","=","=","=","=","=","=","=","=","=","=","=","=","=","=","=","=","=","=","=","=","=","=","=","=","=","=","=","=","=","=","=","=","=","=","=","=","=","=","=","=","=","=","=","=","=","=","=","=","=","=","=","=","=","=","=","=","=","=","=","=","=","=","=","=","=","=","=","=","=","=","=">>,
                     <<"#"," ","B","A","S","E"," ","C","L","A","S","S"," ","S","T","U","B","S"," ","(","f","r","o","m"," ","U","V","M"," ","o","r"," ","o","t","h","e","r"," ","l","i","b","r","a","r","i","e","s",")">>,
                     <<"#"," ","R","e","p","l","a","c","e"," ","t","h","e","s","e"," ","w","i","t","h"," ","a","c","t","u","a","l"," ","i","m","p","l","e","m","e","n","t","a","t","i","o","n","s"," ","o","r"," ","i","m","p","o","r","t","s"," ","a","s"," ","n","e","e","d","e","d">>,
                     <<"#"," ","=","=","=","=","=","=","=","=","=","=","=","=","=","=","=","=","=","=","=","=","=","=","=","=","=","=","=","=","=","=","=","=","=","=","=","=","=","=","=","=","=","=","=","=","=","=","=","=","=","=","=","=","=","=","=","=","=","=","=","=","=","=","=","=","=","=","=","=","=","=","=","=","=","=","=","=","=">>,
                     <<>>>>
                   \o StubLines(sorted(parent_classes))),
     review |-> StubReviewItems(sorted(parent_classes), rv),
     mapping_notes |-> notes \o StubNotes(sorted(parent_classes))]

\* the type of a field of standard integer type, whatever its sign
IntegerTypeSigned(fld) ==
    LET bits == IF fld.data_type = <<"b","y","t","e">> THEN <<"8">>
                ELSE IF fld.data_type = <<"s","h","o","r","t","i","n","t">> THEN <<"1","6">>
                ELSE IF fld.data_type = <<"i","n","t">> THEN <<"3","2">>
                ELSE <<"6","4">>
    IN <<"i","n","t">> \o bits \o <<"_","t","(",")">>

\* the type of a field of standard integer type, behind the prefix
IntegerType(fld) ==
    LET bits == IF fld.data_type = <<"b","y","t","e">> THEN <<"8">>
                ELSE IF fld.data_type = <<"s","h","o","r","t","i","n","t">> THEN <<"1","6">>
                ELSE IF fld.data_type = <<"i","n","t">> THEN <<"3","2">>
                ELSE <<"6","4">>
    IN (IF fld.is_signed THEN <<"i","n","t">> ELSE <<"u","i","n","t">>) \o bits \o <<"_","t","(",")">>

\* the type of a field behind the prefix, as the branches of _get_pyvsc_type
\* after the randc branch and those of _get_inner_type give it
TypeBehind(fld) ==
    IF fld.data_type \in {<<"b","i","t">>, <<"l","o","g","i","c">>} /\ fld.is_signed
    THEN <<"i","n","t","_","t","(">> \o IntStr(fld.width) \o <<")">>
    ELSE IF fld.data_type \in {<<"b","i","t">>, <<"l","o","g","i","c">>}
    THEN <<"b","i","t","_","t","(">> \o IntStr(fld.width) \o <<")">>
    ELSE IF fld.data_type \in {<<"b","y","t","e">>, <<"s","h","o","r","t","i","n","t">>, <<"i","n","t">>, <<"l","o","n","g","i","n","t">>}
    THEN IntegerType(fld)
    ELSE <<"b","i","t","_","t","(">> \o IntStr(fld.width) \o <<")">>

_get_pyvsc_type(fld) ==
    IF fld.field_type = <<"r","a","n","d","c">> THEN <<"v","s","c",".","r","a","n","d","c","_","b","i","t","_","t","(">> \o IntStr(fld.width) \o <<")">>
    ELSE (IF fld.field_type = <<"r","a","n","d">> THEN <<"v","s","c",".","r","a","n","d","_">> ELSE <<"v","s","c",".">>) \o TypeBehind(fld)

_get_inner_type(fld) == <<"v","s","c",".">> \o TypeBehind(fld)

\* by a generator whose verbose is off: no comment behind the declaration
_generate_field(fld) ==
    <<"s","e","l","f",".">> \o fld.name \o <<" ","="," ">>
    \o (IF fld.is_enum
        THEN (IF fld.field_type = <<"r","a","n","d">> THEN <<"v","s","c",".","r","a","n","d","_","e","n","u","m","_","t">> ELSE <<"v","s","c",".","e","n","u","m","_","t">>)
             \o <<"(">> \o _to_python_class_name(fld.data_type) \o <<")">>
        ELSE IF fld.is_array
        THEN (IF fld.field_type = <<"r","a","n","d">> THEN <<"v","s","c",".","r","a","n","d","_","l","i","s","t","_","t">> ELSE <<"v","s","c",".","l","i","s","t","_","t">>)
             \o <<"(">> \o _get_inner_type(fld)
             \o (IF fld.array_size # None /\ fld.array_size[1] # 0
                 THEN <<","," ","s","z","=">> \o IntStr(fld.array_size[1]) ELSE <<>>)
             \o <<")">>
        ELSE _get_pyvsc_type(fld))

\* the lines of _generate_hook; its review item is HookReviewItem
_generate_hook(name, hook_body) ==
    <<INDENT \o <<"d","e","f"," ">> \o name \o <<"(","s","e","l","f",")",":">>,
      INDENT \o INDENT \o <<"\"","\"","\"","C","a","l","l","e","d"," ">>
      \o (IF name = <<"p","r","e","_","r","a","n","d","o","m","i","z","e">> THEN <<"b","e","f","o","r","e">> ELSE <<"a","f","t","e","r"," ","s","u","c","c","e","s","s","f","u","l">>)
      \o <<" ","r","a","n","d","o","m","i","z","a","t","i","o","n","\"","\"","\"">>,
      INDENT \o INDENT \o <<"#"," ","O","r","i","g","i","n","a","l"," ","S","V",":"," ">>
      \o (IF Len(hook_body) > 80 THEN Slice(hook_body, 0, 80) \o <<".",".",".">> ELSE hook_body),
      INDENT \o INDENT \o <<"p","a","s","s"," "," ","#"," ","T","O","D","O",":"," ","T","r","a","n","s","l","a","t","e"," ">> \o name \o <<" ","l","o","g","i","c">>>>

HookReviewItem(name) == name \o <<" ","f","u","n","c","t","i","o","n"," ","r","e","q","u","i","r","e","s"," ","m","a","n","u","a","l"," ","t","r","a","n","s","l","a","t","i","o","n">>

\* the translated lines of the simple range constraints of a class
RECURSIVE RangeConstraints(_)
RangeConstraints(constraints) ==
    IF constraints = <<>> THEN <<>>
    ELSE LET Line(range_line) == IF range_line = None THEN <<>> ELSE <<range_line[1]>>
         IN Line(_extract_simple_range_constraint(Head(constraints).body))
            \o RangeConstraints(Tail(constraints))

\* the constraints of a class that are no simple range constraints
RECURSIVE OtherConstraints(_)
OtherConstraints(constraints) ==
    IF constraints = <<>> THEN <<>>
    ELSE (IF _extract_simple_range_constraint(Head(constraints).body) = None
          THEN <<Head(constraints)>> ELSE <<>>)
         \o OtherConstraints(Tail(constraints))

\* the loop of _generate_class over the other constraints: the lines, and
\* the review items and the warnings after it
RECURSIVE ConstraintMethods(_, _, _)
ConstraintMethods(constraints, rv, wn) ==
    IF constraints = <<>> THEN [lines |-> <<>>, review |-> rv, warnings |-> wn]
    ELSE LET Then(method, rest) ==
                 [lines |-> <<(<<>>)>> \o method.lines \o rest.lines,
                  review |-> rest.review, warnings |-> rest.warnings]
             Generated(method) ==
                 Then(method,
                      ConstraintMethods(Tail(constraints), method.review,
                                        AddWarnings(method.warnings,
                                                    Head(constraints).warnings)))
         IN Generated(_generate_constraint(Head(constraints).name, Head(constraints).body,
                                           rv, wn))

RECURSIVE FieldLines(_)
FieldLines(fs) ==
    IF fs = <<>> THEN <<>>
    ELSE <<INDENT \o INDENT \o _generate_field(Head(fs))>> \o FieldLines(Tail(fs))

\* `if hook:` for the result of _extract_function
HasHook(hook) == hook # None /\ hook[1] # <<>>

Statistics(class_count, field_count, constraints, enums) ==
    [classes |-> class_count, fields |-> field_count, constraints |-> constraints,
     enums |-> enums]

\* The text of a class, and the review items, warnings, mapping notes and
\* statistics of the generator after it.
_generate_class(sv_class, rv, wn, notes, stats) ==
    LET extended == sv_class.parent_class # None
        range_constraints == RangeConstraints(sv_class.constraints)
        other_constraints == OtherConstraints(sv_class.constraints)
        head ==
            <<<<"@","v","s","c",".","r","a","n","d","o","b","j">>,
              <<"c","l","a","s","s"," ">> \o _to_python_class_name(sv_class.name)
              \o (IF extended
                  THEN <<"(">> \o _to_python_class_name(sv_class.parent_class[1]) \o <<")">>
                  ELSE <<>>)
              \o <<":">>,
              INDENT \o <<"\"","\"","\"","T","r","a","n","s","l","a","t","e","d"," ","f","r","o","m"," ","S","V"," ","c","l","a","s","s",":"," ">> \o sv_class.name \o <<"\"","\"","\"">>,
              <<>>,
              INDENT \o <<"d","e","f"," ","_","_","i","n","i","t","_","_","(","s","e","l","f",")",":">>>>
            \o (IF extended THEN <<INDENT \o INDENT \o <<"s","u","p","e","r","(",")",".","_","_","i","n","i","t","_","_","(",")">>>> ELSE <<>>)
            \o (IF sv_class.fields # <<>> THEN FieldLines(sv_class.fields)
                ELSE <<INDENT \o INDENT \o <<"p","a","s","s"," "," ","#"," ","N","o"," ","f","i","e","l","d","s"," ","f","o","u","n","d">>>>)
            \o (IF range_constraints # <<>>
                THEN <<(<<>>), INDENT \o <<"@","v","s","c",".","c","o","n","s","t","r","a","i","n","t">>,
                       INDENT \o <<"d","e","f"," ","p","a","r","a","m","e","t","e","r","_","r","a","n","g","e","(","s","e","l","f",")",":">>>>
                     \o Indented(range_constraints, INDENT \o INDENT)
                ELSE <<>>)
        Hook(name, hook) ==
            IF HasHook(hook) THEN <<(<<>>)>> \o _generate_hook(name, hook[1]) ELSE <<>>
        Reviewed(r, name, hook) ==
            IF HasHook(hook) THEN _add_review_item(r, HookReviewItem(name)) ELSE r
        Class(methods) ==
            [code |-> join(<<"\n">>, head \o methods.lines
                                   \o Hook(<<"p","r","e","_","r","a","n","d","o","m","i","z","e">>, sv_class.pre_randomize)
                                   \o Hook(<<"p","o","s","t","_","r","a","n","d","o","m","i","z","e">>, sv_class.post_randomize)),
             review |-> Reviewed(Reviewed(methods.review, <<"p","r","e","_","r","a","n","d","o","m","i","z","e">>,
                                          sv_class.pre_randomize),
                                 <<"p","o","s","t","_","r","a","n","d","o","m","i","z","e">>, sv_class.post_randomize),
             warnings |-> methods.warnings,
             mapping_notes |->
                 IF extended
                 THEN Append(notes, <<"C","l","a","s","s"," ","'">> \o sv_class.name \o <<"'"," ","e","x","t","e","n","d","s"," ","'">>
                                    \o sv_class.parent_class[1] \o <<"'">>)
                 ELSE notes,
             statistics |->
                 Statistics(stats.classes, stats.fields + Len(sv_class.fields),
                            stats.constraints + Len(other_constraints)
                            + (IF range_constraints # <<>> THEN 1 ELSE 0),
                            stats.enums)]
    IN Class(ConstraintMethods(other_constraints, rv, wn))

\* the fields of a class that the first loop of _validate_generated_code reports
MissingFields(sv_class, generated_code) ==
    {var \in FieldNames(sv_class.fields) :
        ~contains(generated_code, <<"s","e","l","f",".">> \o var \o <<" ","="," ","v","s","c",".">>)}

\* the members of the set names in the order in which they stand in order
RECURSIVE InOrder(_, _)
InOrder(order, names) ==
    IF order = <<>> THEN <<>>
    ELSE (IF Head(order) \in names THEN <<Head(order)>> ELSE <<>>)
         \o InOrder(Tail(order), names)

RECURSIVE FieldIssues(_)
FieldIssues(names) ==
    IF names = <<>> THEN <<>>
    ELSE <<<<"F","i","e","l","d"," ","'">> \o Head(names) \o <<"'"," ","m","a","y"," ","b","e"," ","m","i","s","s","i","n","g"," ","f","r","o","m"," ","_","_","i","n","i","t","_","_">>>>
         \o FieldIssues(Tail(names))

\* the loop of _validate_generated_code over the constraints
RECURSIVE ConstraintIssues(_, _, _, _)
ConstraintIssues(constraints, generated_code, field_names, order) ==
    IF constraints = <<>> THEN <<>>
    ELSE LET c == Head(constraints)
         IN (IF ~contains(generated_code, <<"d","e","f"," ">> \o c.name \o <<"(","s","e","l","f",")",":">>)
             THEN <<<<"C","o","n","s","t","r","a","i","n","t"," ","'">> \o c.name \o <<"'"," ","m","i","s","s","i","n","g"," ","f","r","o","m"," ","g","e","n","e","r","a","t","e","d"," ","c","o","d","e">>>>
             ELSE <<>>)
            \o _validate_constraint_translation(c.name, c.body, generated_code,
                   InOrder(order, MissingIdentifiers(c.name, c.body, generated_code,
                                                    field_names)))
            \o ConstraintIssues(Tail(constraints), generated_code, field_names, order)

\* The issues of a class.  The loops over sets of names pass over the names
\* they report in the order in which the names stand in order.
_validate_generated_code(sv_class, generated_code, order) ==
    FieldIssues(InOrder(order, MissingFields(sv_class, generated_code)))
    \o ConstraintIssues(sv_class.constraints, generated_code,
                        FieldNames(sv_class.fields), order)

\* the sets of names whose order _validate_generated_code depends on
ReportedSets(sv_class, generated_code) ==
    {MissingFields(sv_class, generated_code)}
    \cup {MissingIdentifiers(sv_class.constraints[k].name, sv_class.constraints[k].body,
                             generated_code, FieldNames(sv_class.fields)) :
             k \in 1..Len(sv_class.constraints)}

\* the lines of _generate_usage_example that print the fields
RECURSIVE PrintLines(_, _)
PrintLines(fs, var_name) ==
    IF fs = <<>> THEN <<>>
    ELSE <<<<" "," "," "," "," "," "," "," ","p","r","i","n","t","(","f","'"," "," ">> \o Head(fs).name \o <<" ","="," ","{">> \o var_name \o <<".">>
           \o Head(fs).name \o <<"}","'",")">>>>
         \o PrintLines(Tail(fs), var_name)

\* the loop of _generate_usage_example over the classes
RECURSIVE UsageLines(_)
UsageLines(sv_classes) ==
    IF sv_classes = <<>> THEN <<>>
    ELSE LET class_name == _to_python_class_name(Head(sv_classes).name)
             var_name == lower(Head(sv_classes).name)
         IN <<<<" "," "," "," ","#"," ","C","r","e","a","t","e"," ","a","n","d"," ","r","a","n","d","o","m","i","z","e"," ">> \o class_name,
              <<" "," "," "," ">> \o var_name \o <<" ","="," ">> \o class_name \o <<"(",")">>,
              <<" "," "," "," ">> \o var_name \o <<"_","r","a","n","d","o","m","i","z","e","d"," ","="," ","F","a","l","s","e">>,
              <<" "," "," "," ","t","r","y",":">>,
              <<" "," "," "," "," "," "," "," ">> \o var_name \o <<".","r","a","n","d","o","m","i","z","e","(",")">>,
              <<" "," "," "," "," "," "," "," ">> \o var_name \o <<"_","r","a","n","d","o","m","i","z","e","d"," ","="," ","T","r","u","e">>,
              <<" "," "," "," "," "," "," "," ","p","r","i","n","t","(","f","'">> \o class_name \o <<" ","r","a","n","d","o","m","i","z","e","d"," ","s","u","c","c","e","s","s","f","u","l","l","y","'",")">>,
              <<" "," "," "," ","e","x","c","e","p","t"," ","E","x","c","e","p","t","i","o","n"," ","a","s"," ","e",":">>,
              <<" "," "," "," "," "," "," "," ","p","r","i","n","t","(","f","'">> \o class_name \o <<" ","r","a","n","d","o","m","i","z","e"," ","f","a","i","l","e","d",":"," ","{","e","}","'",")">>,
              <<>>>>
            \o (IF Head(sv_classes).fields # <<>>
                THEN <<<<" "," "," "," ","i","f"," ">> \o var_name \o <<"_","r","a","n","d","o","m","i","z","e","d",":">>,
                       <<" "," "," "," "," "," "," "," ","#"," ","P","r","i","n","t"," ","f","i","e","l","d"," ","v","a","l","u","e","s">>>>
                     \o PrintLines(Slice(Head(sv_classes).fields, 0, 5), var_name)
                     \o <<(<<>>)>>
                ELSE <<>>)
            \o UsageLines(Tail(sv_classes))

_generate_usage_example(sv_classes) ==
    IF sv_classes = <<>> THEN <<>>
    ELSE join(<<"\n">>,
              <<<<"#"," ","=","=","=","=","=","=","=","=","=","=","=","=","=","=","=","=","=","=","=","=","=","=","=","=","=","=","=","=","=","=","=","=","=","=","=","=","=","=","=","=","=","=","=","=","=","=","=","=","=","=","=","=","=","=","=","=","=","=","=","=","=","=","=","=","=","=","=","=","=","=","=","=","=","=","=","=","=">>,
                <<"#"," ","U","S","A","G","E"," ","E","X","A","M","P","L","E">>,
                <<"#"," ","=","=","=","=","=","=","=","=","=","=","=","=","=","=","=","=","=","=","=","=","=","=","=","=","=","=","=","=","=","=","=","=","=","=","=","=","=","=","=","=","=","=","=","=","=","=","=","=","=","=","=","=","=","=","=","=","=","=","=","=","=","=","=","=","=","=","=","=","=","=","=","=","=","=","=","=","=">>,
                <<>>,
                <<"i","f"," ","_","_","n","a","m","e","_","_"," ","=","="," ","'","_","_","m","a","i","n","_","_","'",":">>,
                <<" "," "," "," ","#"," ","S","e","t"," ","s","e","e","d"," ","f","o","r"," ","r","e","p","r","o","d","u","c","i","b","i","l","i","t","y"," ","(","o","p","t","i","o","n","a","l",")">>,
                <<" "," "," "," ","#"," ","v","s","c",".","s","e","t","_","r","a","n","d","s","t","a","t","e","(","1","2","3","4","5",")">>,
                <<>>>>
              \o UsageLines(sv_classes))

\* the issue of _check_sv_syntax_leaks for a line that is no comment and in
\* no docstring
LeakIssue(line, line_num) ==
    LET hash == find(line, <<"#">>, 0)
        code_part == strip(IF hash = -1 THEN line ELSE Slice(line, 0, hash))
        Issue(message) == <<<<"L","i","n","e"," ">> \o IntStr(line_num) \o <<":"," ">> \o message>>
        sized == \E k \in 0..(Len(code_part) - 3) :
                     /\ At(code_part, k) \in Digit
                     /\ At(code_part, k + 1) = "'"
                     /\ At(code_part, k + 2) \in {"h", "H", "b", "B", "d", "D"}
    IN IF code_part = <<>> THEN <<>>
       ELSE IF contains(code_part, <<"i","n","s","i","d","e"," ","{">>) /\ ~contains(code_part, <<"v","s","c",".","r","a","n","g","e","l","i","s","t">>)
       THEN Issue(<<"S","V"," ","'","i","n","s","i","d","e","'"," ","s","y","n","t","a","x"," ","f","o","u","n","d"," ","i","n"," ","c","o","d","e">>)
       ELSE IF contains(code_part, <<"d","i","s","t"," ","{">>) /\ ~contains(code_part, <<"v","s","c",".","d","i","s","t">>)
       THEN Issue(<<"S","V"," ","'","d","i","s","t","'"," ","s","y","n","t","a","x"," ","f","o","u","n","d"," ","i","n"," ","c","o","d","e">>)
       ELSE IF sized THEN Issue(<<"S","V"," ","n","u","m","b","e","r"," ","f","o","r","m","a","t"," ","f","o","u","n","d"," ","i","n"," ","c","o","d","e">>)
       ELSE IF contains(code_part, <<" ","&","&"," ">>) THEN Issue(<<"S","V"," ","'","&","&","'"," ","o","p","e","r","a","t","o","r"," ","-"," ","s","h","o","u","l","d"," ","b","e"," ","'","a","n","d","'">>)
       ELSE IF contains(code_part, <<" ","|","|"," ">>) THEN Issue(<<"S","V"," ","'","|","|","'"," ","o","p","e","r","a","t","o","r"," ","-"," ","s","h","o","u","l","d"," ","b","e"," ","'","o","r","'">>)
       ELSE <<>>

\* one pass of the loop of _check_sv_syntax_leaks, over the line line_num:
\* the issue of the line and the delimiter of the docstring the loop is in
\* after it; docstring_delimiter is None outside a docstring
LeaksOfLine(line, line_num, docstring_delimiter) ==
    LET stripped == strip(line)
        opening == Slice(stripped, 0, 3)
        Skipped(delimiter) == [issues |-> <<>>, docstring_delimiter |-> delimiter]
    IN IF docstring_delimiter # None
       THEN Skipped(IF contains(stripped, docstring_delimiter[1]) THEN None
                    ELSE docstring_delimiter)
       ELSE IF opening \in {<<"\"","\"","\"">>, <<"'","'","'">>}
       THEN Skipped(IF CountFrom(stripped, opening, 0) = 1 THEN Some(opening) ELSE None)
       ELSE IF startswith(stripped, <<"#">>) THEN Skipped(None)
       ELSE [issues |-> LeakIssue(line, line_num), docstring_delimiter |-> None]

\* the loop of _check_sv_syntax_leaks over the lines lo..hi of ls: their
\* issues and the delimiter after them.  The lines of the first half are
\* passed over before those of the second, which start with the delimiter
\* that the first half left.
RECURSIVE LeaksFrom(_, _, _, _)
LeaksFrom(ls, lo, hi, docstring_delimiter) ==
    LET Then(first, second) ==
            [issues |-> first.issues \o second.issues,
             docstring_delimiter |-> second.docstring_delimiter]
        Behind(first) ==
            Then(first, LeaksFrom(ls, ((lo + hi) \div 2) + 1, hi, first.docstring_delimiter))
    IN IF lo > hi THEN [issues |-> <<>>, docstring_delimiter |-> docstring_delimiter]
       ELSE IF lo = hi THEN LeaksOfLine(ls[lo], lo, docstring_delimiter)
       ELSE Behind(LeaksFrom(ls, lo, (lo + hi) \div 2, docstring_delimiter))

\* the lines of code.split('\\n') are numbered from 1
AllLeaks(ls) == LeaksFrom(ls, 1, Len(ls), None).issues

_check_sv_syntax_leaks(code) == AllLeaks(split(code, <<"\n">>))

(***************************************************************************)
(* translate_code: the parser, then the generator                          *)
(***************************************************************************)
\* a _reset_state without its last two assignments: the enum value map and
\* the enum class names stay what the translation before left
_reset_state_keeping_enums ==
    [warnings |-> <<>>, review |-> <<>>, mapping_notes |-> <<>>,
     statistics |-> [classes |-> 0, fields |-> 0, constraints |-> 0, enums |-> 0],
     enum_value_map |-> enum_value_map, enum_class_names |-> enum_class_names]

\* the state _reset_state gives the generator; the sets _warnings_set and
\* _review_set hold the members of the two lists
_reset_state ==
    [warnings |-> <<>>, review |-> <<>>, mapping_notes |-> <<>>,
     statistics |-> Statistics(0, 0, 0, 0),
     enum_value_map |-> <<>>, enum_class_names |-> {}]

\* [enum for sv_class in sv_classes for enum in sv_class.enums]
RECURSIVE AllEnums(_)
AllEnums(sv_classes) ==
    IF sv_classes = <<>> THEN <<>> ELSE Head(sv_classes).enums \o AllEnums(Tail(sv_classes))

\* the loop of generate over the members of an enum, from the generator
\* state st on
RECURSIVE MapValues(_, _, _)
MapValues(values, class_name, st) ==
    IF values = <<>> THEN st
    ELSE LET value_name == Head(values)[1]
             taken == value_name \in DOMAIN st.enum_value_map
         IN MapValues(Tail(values), class_name,
                IF taken /\ st.enum_value_map[value_name] # class_name
                THEN [st EXCEPT !.warnings =
                         _add_warning(@, <<"E","n","u","m"," ","v","a","l","u","e"," ","'">> \o value_name
                                         \o <<"'"," ","a","p","p","e","a","r","s"," ","i","n"," ","m","u","l","t","i","p","l","e"," ","e","n","u","m","s",";"," ","u","s","i","n","g"," ","'">>
                                         \o st.enum_value_map[value_name] \o <<"'">>)]
                ELSE IF taken THEN st
                ELSE [st EXCEPT !.enum_value_map = (value_name :> class_name) @@ @])

\* the loop of generate that builds enum_value_map and enum_class_names
RECURSIVE MapEnums(_, _)
MapEnums(enums, st) ==
    IF enums = <<>> THEN st
    ELSE MapEnums(Tail(enums),
                  MapValues(Head(enums).values, _to_python_class_name(Head(enums).name),
                            [st EXCEPT !.enum_class_names =
                                @ \cup {_to_python_class_name(Head(enums).name)}]))

\* the enums that generate emits: the first of each name
RECURSIVE UniqueEnums(_, _)
UniqueEnums(enums, seen_enums) ==
    IF enums = <<>> THEN <<>>
    ELSE IF Head(enums).name \in seen_enums THEN UniqueEnums(Tail(enums), seen_enums)
    ELSE <<Head(enums)>> \o UniqueEnums(Tail(enums), seen_enums \cup {Head(enums).name})

\* the loop of generate over the classes, from the generator state st on:
\* the texts of the classes and the state after it
RECURSIVE ClassParts(_, _, _)
PartsThen(class_code, rest) == [parts |-> <<class_code>> \o rest.parts, st |-> rest.st]

\* the loop after _generate_class gave generated and _validate_generated_code
\* gave issues for the first of the classes
PartsBehind(sv_classes, st, order, generated, issues) ==
    PartsThen(generated.code,
              ClassParts(Tail(sv_classes),
                         [st EXCEPT !.review = generated.review,
                                    !.warnings = AddWarnings(generated.warnings, issues),
                                    !.mapping_notes = generated.mapping_notes,
                                    !.statistics =
                                        [generated.statistics EXCEPT !.classes = @ + 1]],
                         order))

PartsValidated(sv_classes, st, order, generated) ==
    PartsBehind(sv_classes, st, order, generated,
                _validate_generated_code(Head(sv_classes), generated.code, order))

ClassParts(sv_classes, st, order) ==
    IF sv_classes = <<>> THEN [parts |-> <<>>, st |-> st]
    ELSE PartsValidated(sv_classes, st, order,
                        _generate_class(Head(sv_classes), st.review, st.warnings,
                                        st.mapping_notes, st.statistics))

\* filter(None, code_parts)
RECURSIVE NonEmpty(_)
NonEmpty(parts) ==
    IF parts = <<>> THEN <<>>
    ELSE (IF Head(parts) # <<>> THEN <<Head(parts)>> ELSE <<>>) \o NonEmpty(Tail(parts))

RECURSIVE EnumParts(_)
EnumParts(enums) ==
    IF enums = <<>> THEN <<>> ELSE <<_generate_enum(Head(enums))>> \o EnumParts(Tail(enums))

RECURSIVE EnumNotes(_)
EnumNotes(enums) ==
    IF enums = <<>> THEN <<>> ELSE <<EnumNote(Head(enums))>> \o EnumNotes(Tail(enums))

TranslationResult(pyvsc_code, wn, manual_review_items, notes, stats) ==
    [pyvsc_code |-> pyvsc_code, warnings |-> wn,
     manual_review_items |-> manual_review_items, mapping_notes |-> notes,
     statistics |-> stats]

\* the parent classes that no class of the input defines
ParentClasses(sv_classes) ==
    {sv_classes[k].parent_class[1] :
        k \in {j \in 1..Len(sv_classes) : sv_classes[j].parent_class # None}}
    \ {sv_classes[k].name : k \in 1..Len(sv_classes)}

\* `if parent_classes:` in generate: the part that _generate_base_class_stubs
\* gives, and the review items and mapping notes of the generator g after it
BaseClassStubs(stub) ==
    [parts |-> <<stub.code>>, review |-> stub.review, mapping_notes |-> stub.mapping_notes]

StubParts(parent_classes, g) ==
    IF parent_classes = {}
    THEN [parts |-> <<>>, review |-> g.review, mapping_notes |-> g.mapping_notes]
    ELSE BaseClassStubs(_generate_base_class_stubs(parent_classes, g.review,
                                                   g.mapping_notes))

\* the end of generate: the TranslationResult for the text final_code, whose
\* lists are those of the generator g
Checked(final_code, g) ==
    TranslationResult(final_code,
                      AddWarnings(g.warnings, _check_sv_syntax_leaks(final_code)),
                      g.review, g.mapping_notes, g.statistics)

\* generate after its loop over the classes, which gave cls
AfterClasses(sv_classes, head_parts, cls) ==
    Checked(join(<<"\n","\n">>, NonEmpty(head_parts \o cls.parts
                                     \o <<_generate_usage_example(sv_classes)>>)),
            cls.st)

\* generate after the stubs of the parent classes
AfterStubs(sv_classes, head_parts, g, order, stub) ==
    AfterClasses(sv_classes, head_parts \o stub.parts,
                 ClassParts(sv_classes,
                            [g EXCEPT !.review = stub.review,
                                      !.mapping_notes = stub.mapping_notes],
                            order))

\* generate after the enums
AfterEnums(sv_classes, head_parts, g, order) ==
    AfterStubs(sv_classes, head_parts, g, order, StubParts(ParentClasses(sv_classes), g))

\* generate after the enums to emit are known
WithEnums(sv_classes, enums, st, order) ==
    AfterEnums(sv_classes, <<_generate_header, _generate_imports>> \o EnumParts(enums),
               [st EXCEPT !.mapping_notes = @ \o EnumNotes(enums),
                          !.statistics = [@ EXCEPT !.enums = @ + Len(enums)]],
               order)

\* generate after its loop over the enum values, from the generator state
\* st on: the TranslationResult, whose lists are those of the generator
generate(sv_classes, st, order) ==
    WithEnums(sv_classes, UniqueEnums(AllEnums(sv_classes), {}), st, order)

\* what translate_code returns for an input without a class
NoClassesFound ==
    TranslationResult(<<"#"," ","N","o"," ","c","l","a","s","s","e","s"," ","f","o","u","n","d"," ","i","n"," ","i","n","p","u","t">>,
                      <<<<"N","o"," ","S","y","s","t","e","m","V","e","r","i","l","o","g"," ","c","l","a","s","s","e","s"," ","f","o","u","n","d"," ","i","n"," ","i","n","p","u","t">>>>, <<>>, <<>>,
                      Statistics(0, 0, 0, 0))

\* the names that _validate_generated_code would report for the classes, in
\* a loop over a set
ReportedNames(sv_classes) ==
    UNION {UNION ReportedSets(sv_classes[k],
                              _generate_class(sv_classes[k], <<>>, <<>>, <<>>,
                                              Statistics(0, 0, 0, 0)).code) :
              k \in 1..Len(sv_classes)}

\* SVtoPyVSCTranslator.translate_code up to the return of the parser: the
\* exception of the parser leaves translate_code, an input without a class
\* gives the placeholder, and the generator gets the classes otherwise
TranslateCode ==
    /\ pc = "translate_code"
    /\ LET Parsed(sv_classes) ==
               IF IsRaised(sv_classes)
               THEN result' = sv_classes /\ pc' = "raised" /\ UNCHANGED classes
               ELSE IF sv_classes[1] = <<>>
               THEN result' = Some(NoClassesFound) /\ pc' = "returned" /\ classes' = <<>>
               ELSE classes' = sv_classes[1] /\ pc' = "generate" /\ UNCHANGED result
       IN Parsed(parse(body))
    /\ UNCHANGED <<body, statements, lines, review, enum_value_map, enum_class_names, fields,
                   warnings, mapping_notes, statistics, caller, tools, input_file, output_path,
                   output_file, stdout, stderr, exit_code, expected, previous, set_order>>

\* PyVSCGenerator.generate, its first part: _reset_state and the loop that
\* builds the enum value map
ResetState ==
    /\ pc = "generate"
    /\ LET Mapped(st) ==
               /\ warnings' = st.warnings
               /\ review' = st.review
               /\ mapping_notes' = st.mapping_notes
               /\ statistics' = st.statistics
               /\ enum_value_map' = st.enum_value_map
               /\ enum_class_names' = st.enum_class_names
       IN Mapped(MapEnums(AllEnums(classes), _reset_state))
    /\ pc' = "reset"
    /\ UNCHANGED <<body, statements, lines, fields, classes, result, caller, tools, input_file,
                   output_path, output_file, stdout, stderr, exit_code, expected, previous, set_order>>

\* PyVSCGenerator.generate, the rest of it, and the return of translate_code.
\* A loop over a set of names passes over them in an order of its own, the
\* same whenever the process builds the set again.
Generate ==
    /\ pc = "reset"
    /\ \E order \in Orderings(ReportedNames(classes)) :
           LET names == {order[k] : k \in 1..Len(order)}
               Returned(r) ==
                   /\ names \in DOMAIN set_order => order = set_order[names]
                   /\ set_order' = (names :> order) @@ set_order
                   /\ result' = Some(r)
                   /\ warnings' = r.warnings
                   /\ review' = r.manual_review_items
                   /\ mapping_notes' = r.mapping_notes
                   /\ statistics' = r.statistics
           IN Returned(generate(classes,
                                [warnings |-> warnings, review |-> review,
                                 mapping_notes |-> mapping_notes,
                                 statistics |-> statistics],
                                order))
    /\ pc' = "returned"
    /\ UNCHANGED <<body, statements, lines, enum_value_map, enum_class_names, fields, classes,
                   caller, tools, input_file, output_path, output_file, stdout, stderr, exit_code,
                   expected, previous>>

(***************************************************************************)
(* main: a run of the command line without --report                        *)
(***************************************************************************)
\* args.input
input_path == <<"i","n",".","s","v">>

\* the line that main prints for the exception e; the text of e is not
\* modelled
ErrorDuringTranslation(e) == <<<<"E","r","r","o","r"," ","d","u","r","i","n","g"," ","t","r","a","n","s","l","a","t","i","o","n",":"," ">>, e>>

\* what reading a file that cannot be read raises (a directory, a file
\* without permission, bytes that are no text)
Unreadable == <<"OSError", "cannot read">>

\* what opening a file for writing raises in a directory that is missing,
\* and for a path that cannot be written
NoDirectory == <<"FileNotFoundError", "No such file or directory">>
Unwritable == <<"OSError", "cannot write">>

\* the handlers of main for the exception e: a line on sys.stderr and
\* sys.exit(1)
Except(e) ==
    /\ stderr' = Append(stderr, IF e[1] = "FileNotFoundError"
                                THEN <<"E","r","r","o","r",":"," ","F","i","l","e"," ","n","o","t"," ","f","o","u","n","d",":"," ">> \o input_path
                                ELSE ErrorDuringTranslation(e))
    /\ exit_code' = Some(1)
    /\ pc' = "exited"

\* translate_file: open(input_path, 'r') and f.read()
ReadInput ==
    /\ pc = "main"
    /\ IF input_file = None THEN Except(NoDirectory) /\ UNCHANGED body
       ELSE IF IsRaised(input_file) THEN Except(input_file) /\ UNCHANGED body
       ELSE body' = input_file[1] /\ pc' = "translate_code" /\ UNCHANGED <<stderr, exit_code>>
    /\ UNCHANGED <<statements, lines, review, enum_value_map, enum_class_names, fields,
                   warnings, classes, mapping_notes, statistics, result, caller, tools, input_file,
                   output_path, output_file, stdout, expected, previous, set_order>>

\* the content of a file opened by open(path, 'a'): what the file held
open_a(file) == IF file = None THEN <<>> ELSE file[1]

\* the content of a file after open(path, 'w')
open_w(file) == <<>>

\* translate_file after translate_code has returned: the output is opened
\* and written if output_path is not empty, and main returns.  Opening the
\* file can fail.
WriteOutput ==
    /\ pc = "returned"
    /\ caller = "main"
    /\ \/ /\ output_path # <<>>
          /\ output_file' = Some(open_w(output_file) \o result[1].pyvsc_code)
          /\ stdout' = Append(stdout, <<"O","u","t","p","u","t"," ","w","r","i","t","t","e","n"," ","t","o",":"," ">> \o output_path)
          /\ exit_code' = Some(0)
          /\ pc' = "exited"
          /\ UNCHANGED stderr
       \/ /\ output_path # <<>>
          /\ \E e \in {NoDirectory, Unwritable} : Except(e)
          /\ UNCHANGED <<output_file, stdout>>
       \/ /\ output_path = <<>>
          /\ exit_code' = Some(0)
          /\ pc' = "exited"
          /\ UNCHANGED <<output_file, stdout, stderr>>
    /\ UNCHANGED <<body, statements, lines, review, enum_value_map, enum_class_names, fields,
                   warnings, classes, mapping_notes, statistics, result, caller, tools, input_file,
                   output_path, expected, previous, set_order>>

\* main when translate_code has raised: the handler of `except Exception`
ExceptException ==
    /\ pc = "raised"
    /\ caller = "main"
    /\ Except(result)
    /\ UNCHANGED <<body, statements, lines, review, enum_value_map, enum_class_names, fields,
                   warnings, classes, mapping_notes, statistics, result, caller, tools, input_file,
                   output_path, output_file, stdout, expected, previous, set_order>>

(***************************************************************************)
(* Runs of the command line                                                *)
(***************************************************************************)
\* the typedefs of an input: none, one with and without explicit values,
\* one with a base type and a sized literal, one whose value is no number
EnumTexts ==
    {<<>>,
     <<"t","y","p","e","d","e","f"," ","e","n","u","m"," ","{","A",","," ","B","=","5",","," ","C","}"," ","m","y","_","e",";","\n">>,
     <<"t","y","p","e","d","e","f"," ","e","n","u","m"," ","b","i","t"," ","[","1",":","0","]"," ","{","L","O",","," ","H","I","=","2","'","b","1","0",","," ","T","O","P","}"," ","l","v","l","_","t",";","\n">>,
     <<"t","y","p","e","d","e","f"," ","e","n","u","m"," ","{","R","E","D","=","x","y","z","}"," ","c","_","e",";","\n">>}

\* the classes of an input: none, only a comment that names one, and
\* classes with fields, constraints of several kinds, a parent and a hook
ClassTexts ==
    {<<>>,
     <<"/","/"," ","c","l","a","s","s"," ","c",";"," ","e","n","d","c","l","a","s","s","\n">>,
     <<"c","l","a","s","s"," ","p","k","t",";","\n"," "," ","r","a","n","d"," ","b","i","t"," ","[","7",":","0","]"," ","a",";","\n"," "," ","c","o","n","s","t","r","a","i","n","t"," ","k"," ","{"," ","a"," ","=","="," ","1",";"," ","}","\n","e","n","d","c","l","a","s","s","\n">>,
     <<"c","l","a","s","s"," ","c","f","g","_","t"," ","e","x","t","e","n","d","s"," ","b","a","s","e",";","\n"," "," ","r","a","n","d"," ","m","y","_","e"," ","m",";","\n"," "," ","r","a","n","d"," ","i","n","t"," ","n",";","\n"," "," ","c","o","n","s","t","r","a","i","n","t"," ","r"," ","{"," ","n"," ",">","="," ","1"," ","&","&"," ","n"," ","<","="," ","9",";"," ","}","\n"," "," ","c","o","n","s","t","r","a","i","n","t"," ","k"," ","{"," ","m"," ","=","="," ","B",";"," ","n","[","3",":","1","]"," ","=","="," ","2",";"," ","}","\n","e","n","d","c","l","a","s","s","\n">>,
     <<"c","l","a","s","s"," ","s","e","q",";","\n"," "," ","r","a","n","d"," ","l","v","l","_","t"," ","l",";","\n"," "," ","c","o","n","s","t","r","a","i","n","t"," ","k"," ","{"," ","i","f"," ","(","l"," ","=","="," ","H","I",")"," ","{"," ","l"," ","!","="," ","L","O",";"," ","}"," ","}","\n"," "," ","f","u","n","c","t","i","o","n"," ","v","o","i","d"," ","p","o","s","t","_","r","a","n","d","o","m","i","z","e","(",")",";"," ","l"," ","="," ","L","O",";"," ","e","n","d","f","u","n","c","t","i","o","n","\n","e","n","d","c","l","a","s","s","\n">>}

Documents == {e \o c : e \in EnumTexts, c \in ClassTexts}

\* a run of main on the paths in.sv and out.py, or with an empty output path
InitMain ==
    /\ pc = "main"
    /\ body = <<>>
    /\ statements = <<>>
    /\ lines = <<>>
    /\ review = <<>>
    /\ enum_value_map = <<>>
    /\ enum_class_names = {}
    /\ fields = <<>>
    /\ warnings = <<>>
    /\ classes = <<>>
    /\ mapping_notes = <<>>
    /\ statistics = <<>>
    /\ result = None
    /\ caller = "main"
    /\ input_file \in {None, Unreadable} \cup {Some(d) : d \in Documents}
    /\ output_path \in {<<>>, <<"o","u","t",".","p","y">>}
    /\ output_file \in {None, Some(<<"#"," ","o","l","d","\n">>)}
    /\ stdout = <<>>
    /\ stderr = <<>>
    /\ exit_code = None
    /\ expected = None
    /\ previous = None
    /\ set_order = <<>>
    /\ ToolsInit

NextMain ==
    ReadInput \/ TranslateCode \/ ResetState \/ Generate \/ WriteOutput \/ ExceptException

SpecMain == InitMain /\ [][NextMain]_vars

\* a step of a run either writes the complete generated text to the output
\* and ends the process with status 0, or leaves the output file as it is;
\* and a step that ends the process without writing ends it with status 1
\* and a line on sys.stderr
WrittenOrReported ==
    /\ \/ /\ pc' = "exited"
          /\ exit_code' = Some(0)
          /\ result # None /\ ~IsRaised(result)
          /\ output_file' = Some(result[1].pyvsc_code)
       \/ output_file' = output_file
    /\ (pc' = "exited" /\ output_file' = output_file)
           => (exit_code' = Some(1) /\ Len(stderr') = Len(stderr) + 1)

InputWithoutClass == ~contains(_remove_comments(body), <<"c","l","a","s","s">>)

\* the result is the placeholder: its text, the warning, no statistics
PlaceholderResult ==
    /\ result # None /\ ~IsRaised(result)
    /\ result[1].pyvsc_code = <<"#"," ","N","o"," ","c","l","a","s","s","e","s"," ","f","o","u","n","d"," ","i","n"," ","i","n","p","u","t">>
    /\ \E k \in 1..Len(result[1].warnings) :
           result[1].warnings[k] = <<"N","o"," ","S","y","s","t","e","m","V","e","r","i","l","o","g"," ","c","l","a","s","s","e","s"," ","f","o","u","n","d"," ","i","n"," ","i","n","p","u","t">>
    /\ \A key \in {"classes", "fields", "constraints", "enums"} :
           result[1].statistics[key] = 0

\* C18: when the input contains no class, translate_code returns: the text
\* of the result is the placeholder, its warnings hold the warning that no
\* class was found and all its statistics are zero; the command line then
\* writes the placeholder to the output path, when it can open it, and exits
\* with status 0.
C18_NoClassGivesPlaceholder ==
    (InputWithoutClass /\ pc \in {"returned", "raised", "exited"} /\ input_file # None
         /\ ~IsRaised(input_file))
        => /\ PlaceholderResult
           /\ (pc = "exited" /\ output_path # <<>> /\ stderr = <<>>)
                  => (output_file = Some(<<"#"," ","N","o"," ","c","l","a","s","s","e","s"," ","f","o","u","n","d"," ","i","n"," ","i","n","p","u","t">>)
                      /\ exit_code = Some(0))


(***************************************************************************)
(* A library caller: translate_code again and again on one translator      *)
(***************************************************************************)
\* a class that compares a field with the name B, without and with the enum
\* that declares B
PlainConfig ==
    <<"c","l","a","s","s"," ","c","f","g","_","t"," ","e","x","t","e","n","d","s"," ","b","a","s","e",";","\n"," "," ","r","a","n","d"," ","m","y","_","e"," ","m",";","\n"," "," ","r","a","n","d"," ","i","n","t"," ","n",";","\n"," "," ","c","o","n","s","t","r","a","i","n","t"," ","r"," ","{"," ","n"," ",">","="," ","1"," ","&","&"," ","n"," ","<","="," ","9",";"," ","}","\n"," "," ","c","o","n","s","t","r","a","i","n","t"," ","k"," ","{"," ","m"," ","=","="," ","B",";"," ","n","[","3",":","1","]"," ","=","="," ","2",";"," ","}","\n","e","n","d","c","l","a","s","s","\n">>
EnumConfig == <<"t","y","p","e","d","e","f"," ","e","n","u","m"," ","{","A",","," ","B","=","5",","," ","C","}"," ","m","y","_","e",";","\n">> \o PlainConfig

\* the documents of the caller: the two above, a class with an enum of its
\* own, a conditional and a hook, an enum that the parser cannot read, and a
\* document without a class
LibraryDocuments ==
    {PlainConfig, EnumConfig,
     <<"t","y","p","e","d","e","f"," ","e","n","u","m"," ","b","i","t"," ","[","1",":","0","]"," ","{","L","O",","," ","H","I","=","2","'","b","1","0",","," ","T","O","P","}"," ","l","v","l","_","t",";","\n","c","l","a","s","s"," ","s","e","q",";","\n"," "," ","r","a","n","d"," ","l","v","l","_","t"," ","l",";","\n"," "," ","c","o","n","s","t","r","a","i","n","t"," ","k"," ","{"," ","i","f"," ","(","l"," ","=","="," ","H","I",")"," ","{"," ","l"," ","!","="," ","L","O",";"," ","}"," ","}","\n"," "," ","f","u","n","c","t","i","o","n"," ","v","o","i","d"," ","p","o","s","t","_","r","a","n","d","o","m","i","z","e","(",")",";"," ","l"," ","="," ","L","O",";"," ","e","n","d","f","u","n","c","t","i","o","n","\n","e","n","d","c","l","a","s","s","\n">>,
     <<"t","y","p","e","d","e","f"," ","e","n","u","m"," ","{","R","E","D","=","x","y","z","}"," ","c","_","e",";","\n","c","l","a","s","s"," ","p","k","t",";","\n"," "," ","r","a","n","d"," ","b","i","t"," ","[","7",":","0","]"," ","a",";","\n"," "," ","c","o","n","s","t","r","a","i","n","t"," ","k"," ","{"," ","a"," ","=","="," ","1",";"," ","}","\n","e","n","d","c","l","a","s","s","\n">>,
     <<"/","/"," ","c","l","a","s","s"," ","c",";"," ","e","n","d","c","l","a","s","s","\n">>}

\* the first call of translate_code on a translator just constructed
InitLibrary ==
    /\ pc = "translate_code"
    /\ body \in LibraryDocuments
    /\ statements = <<>>
    /\ lines = <<>>
    /\ review = <<>>
    /\ enum_value_map = <<>>
    /\ enum_class_names = {}
    /\ OthersInit

\* the caller takes the result, or catches the exception, keeps what the
\* first call gave, and calls translate_code on a document again
Call ==
    /\ pc \in {"returned", "raised"}
    /\ caller = "library"
    /\ expected' = IF expected = None THEN Some([sv_code |-> body, result |-> result])
                   ELSE expected
    /\ previous' = Some(body)
    /\ \E sv_code \in LibraryDocuments : body' = sv_code
    /\ result' = None
    /\ pc' = "translate_code"
    /\ UNCHANGED <<statements, lines, review, enum_value_map, enum_class_names, fields,
                   warnings, classes, mapping_notes, statistics, caller, tools, input_file,
                   output_path, output_file, stdout, stderr, exit_code, set_order>>

NextLibrary == TranslateCode \/ ResetState \/ Generate \/ Call
SpecLibrary == InitLibrary /\ [][NextLibrary]_vars

\* C19: whatever the translator has translated before, translate_code on
\* the document of the first call gives what the first call, on the translator
\* just constructed, gave: the same text, warnings, review items, mapping
\* notes and statistics (or the same exception).
C19_SameAsFreshInstance ==
    (pc \in {"returned", "raised"} /\ expected # None /\ expected[1].sv_code = body)
        => result = expected[1].result

\* the class without the enum is translated again, right after the document
\* that declares the enum
C19_PlainAfterEnum ==
    /\ pc = "returned"
    /\ expected # None /\ expected[1].sv_code = PlainConfig
    /\ body = PlainConfig
    /\ previous = Some(EnumConfig)
    /\ result = expected[1].result


(***************************************************************************)
(* The values of the members of an enum                                    *)
(***************************************************************************)
\* the members of the enum of a document
MemberNames == <<<<"A">>, <<"B">>, <<"C">>>>

\* explicit values of a member: the text behind the sign = and the number
\* that the literal denotes in SystemVerilog
ReadValues ==
    {[text |-> <<"5">>, value |-> 5], [text |-> <<"1">>, value |-> 1],
     [text |-> <<"-","3">>, value |-> -3], [text |-> <<"4","'","h","F">>, value |-> 15]}

\* an unsized literal: int() cannot read it
UnreadValues == {[text |-> <<"'","h","1","0">>, value |-> 16]}

\* for each member, its explicit value or None
MemberChoices ==
    [1..Len(MemberNames) -> {None} \cup {Some(v) : v \in ReadValues \cup UnreadValues}]

RECURSIVE MemberTexts(_, _)
MemberTexts(choice, k) ==
    IF k > Len(MemberNames) THEN <<>>
    ELSE <<MemberNames[k]
           \o (IF choice[k] = None THEN <<>> ELSE <<"=">> \o choice[k][1].text)>>
         \o MemberTexts(choice, k + 1)

\* the typedef of the enum my_e with the members, and a class that has a
\* field of the type
EnumDocument(choice) ==
    <<"t","y","p","e","d","e","f"," ","e","n","u","m"," ","{">> \o join(<<","," ">>, MemberTexts(choice, 1))
    \o <<"}"," ","m","y","_","e",";","\n","c","l","a","s","s"," ","p",";","\n"," "," ","r","a","n","d"," ","m","y","_","e"," ","m",";","\n","e","n","d","c","l","a","s","s","\n">>

EnumDocuments == {EnumDocument(choice) : choice \in MemberChoices}

InitEnum ==
    /\ pc = "translate_code"
    /\ body \in EnumDocuments
    /\ statements = <<>>
    /\ lines = <<>>
    /\ review = <<>>
    /\ enum_value_map = <<>>
    /\ enum_class_names = {}
    /\ OthersInit

NextEnum == TranslateCode \/ ResetState \/ Generate
SpecEnum == InitEnum /\ [][NextEnum]_vars

\* the value of member k by the rule: that of the last member up to k with an
\* explicit value, plus the number of members since; k - 1 if there is none
MemberValue(choice, k) ==
    LET last == Greatest({j \in 1..k : choice[j] # None})
    IN IF last = -1 THEN k - 1 ELSE choice[last][1].value + (k - last)

\* the result has one line for member k, and it gives the member the value
MemberLine(choice, k) ==
    LET code == result[1].pyvsc_code
        member == <<"\n">> \o INDENT \o MemberNames[k] \o <<" ","="," ">>
        at == find(code, member, 0)
    IN /\ at # -1
       /\ find(code, member, at + 1) = -1
       /\ HasAt(code, at, member \o IntStr(MemberValue(choice, k)) \o <<"\n">>)

Translating(documents) ==
    /\ pc = "translate_code"
    /\ body \in documents
    /\ statements = <<>>
    /\ lines = <<>>
    /\ review = <<>>
    /\ enum_value_map = <<>>
    /\ enum_class_names = {}
    /\ OthersInit

\* (signed|unsigned)? of a declaration
IntSigns == {<<>>, <<"s","i","g","n","e","d">>, <<"u","n","s","i","g","n","e","d">>}

\* the names of a declaration: one, or two with a comma
IntNames == {<<<<"c","n","t">>>>, <<<<"c","n","t">>, <<"l","e","n">>>>}

\* the white space between the words of a declaration
IntSpaces == {<<" ">>, <<"\t"," ">>}

\* `rand int unsigned cnt;`
IntDeclaration(type, sign, names, space) ==
    <<"r","a","n","d">> \o space \o type \o (IF sign = <<>> THEN <<>> ELSE space \o sign)
    \o space \o join(<<","," ">>, names) \o <<";">>

\* a class of one declaration, with or without a constraint on the field
IntDocument(type, sign, names, space, constrained) ==
    <<"c","l","a","s","s"," ","p","k","t",";","\n"," "," ">> \o IntDeclaration(type, sign, names, space) \o <<"\n">>
    \o (IF constrained THEN <<" "," ","c","o","n","s","t","r","a","i","n","t"," ","c","_","c","n","t"," ","{"," ","c","n","t"," ","i","n","s","i","d","e"," ","{","[","0",":","1","0","]","}",";"," ","}","\n">> ELSE <<>>)
    \o <<"e","n","d","c","l","a","s","s","\n">>

IntDocuments ==
    {IntDocument(type, sign, names, space, constrained) :
        type \in IntTypes, sign \in IntSigns, names \in IntNames, space \in IntSpaces,
        constrained \in BOOLEAN}

InitIntFields == Translating(IntDocuments)

NextIntFields == TranslateCode \/ ResetState \/ Generate

SpecIntFields == InitIntFields /\ [][NextIntFields]_vars

\* the width that SystemVerilog gives a type
BitsOf(type) ==
    IF type = <<"b","y","t","e">> THEN 8 ELSE IF type = <<"s","h","o","r","t","i","n","t">> THEN 16
    ELSE IF type = <<"i","n","t">> THEN 32 ELSE 64

\* the line of the field in the generated __init__
IntFieldLine(type, sign, name) ==
    <<"\n">> \o INDENT \o INDENT \o <<"s","e","l","f",".">> \o name \o <<" ","="," ","v","s","c",".","r","a","n","d","_">>
    \o (IF sign = <<"u","n","s","i","g","n","e","d">> THEN <<"u","i","n","t">> ELSE <<"i","n","t">>) \o IntStr(BitsOf(type))
    \o <<"_","t","(",")","\n">>

\* C21: a rand field of type byte, shortint, int or longint has width 8, 16,
\* 32 or 64, is signed unless it is declared unsigned, and is emitted as
\* vsc.rand_int<W>_t() when signed and as vsc.rand_uint<W>_t() when unsigned.
C21_IntegerFieldTypes ==
    pc = "returned"
        => \A type \in IntTypes, sign \in IntSigns, names \in IntNames,
              space \in IntSpaces, constrained \in BOOLEAN :
               body = IntDocument(type, sign, names, space, constrained)
                   => /\ Len(classes) = 1
                      /\ Len(classes[1].fields) = Len(names)
                      /\ \A k \in 1..Len(names) :
                             /\ classes[1].fields[k].name = names[k]
                             /\ classes[1].fields[k].width = BitsOf(type)
                             /\ classes[1].fields[k].is_signed = (sign # <<"u","n","s","i","g","n","e","d">>)
                             /\ contains(result[1].pyvsc_code,
                                         IntFieldLine(type, sign, names[k]))

\* `rand int unsigned cnt;` with `cnt inside {[0:10]};` is translated, and
\* the field is `self.cnt = vsc.rand_uint32_t()`
C21_UnsignedIntField ==
    /\ pc = "returned"
    /\ body = <<"c","l","a","s","s"," ","p","k","t",";","\n"," "," ","r","a","n","d"," ","i","n","t"," ","u","n","s","i","g","n","e","d"," ","c","n","t",";","\n"," "," ","c","o","n","s","t","r","a","i","n","t"," ","c","_","c","n","t"," ","{"," ","c","n","t"," ","i","n","s","i","d","e"," ","{","[","0",":","1","0","]","}",";"," ","}","\n","e","n","d","c","l","a","s","s","\n">>
    /\ classes[1].fields[1].width = 32
    /\ ~classes[1].fields[1].is_signed
    /\ contains(result[1].pyvsc_code, <<"\n"," "," "," "," "," "," "," "," ","s","e","l","f",".","c","n","t"," ","="," ","v","s","c",".","r","a","n","d","_","u","i","n","t","3","2","_","t","(",")","\n">>)

(***************************************************************************)
(* Two constraint blocks of one name in a class                            *)
(***************************************************************************)
\* the names of the constraint blocks of a class
BlockNames == {<<"c">>, <<"d">>}

\* the bodies of the blocks: two relations, a range that _generate_class
\* puts under parameter_range, and a membership
BlockBodies == {<<"x"," ","<"," ","5",";">>, <<"x"," ",">"," ","2",";">>, <<"x"," ",">","="," ","1"," ","&","&"," ","x"," ","<","="," ","9",";">>, <<"x"," ","i","n","s","i","d","e"," ","{","[","0",":","3","]","}",";">>}

\* a class of one field and two constraint blocks
BlocksDocument(n1, b1, n2, b2) ==
    <<"c","l","a","s","s"," ","p","k","t",";","\n"," "," ","r","a","n","d"," ","b","i","t"," ","[","7",":","0","]"," ","x",";","\n"," "," ","c","o","n","s","t","r","a","i","n","t"," ">> \o n1 \o <<" ","{"," ">> \o b1
    \o <<" ","}","\n"," "," ","c","o","n","s","t","r","a","i","n","t"," ">> \o n2 \o <<" ","{"," ">> \o b2 \o <<" ","}","\n","e","n","d","c","l","a","s","s","\n">>

BlocksDocuments ==
    {BlocksDocument(n1, b1, n2, b2) :
        n1 \in BlockNames, b1 \in BlockBodies, n2 \in BlockNames, b2 \in BlockBodies}

InitBlocks == Translating(BlocksDocuments)

NextBlocks == TranslateCode \/ ResetState \/ Generate

SpecBlocks == InitBlocks /\ [][NextBlocks]_vars

\* C22: when a class contains two constraint blocks with the same name, the
\* later one overwrites the earlier one: only the last block of that name is
\* retained by the parser, and only it is translated.
C22_LaterBlockOverwrites ==
    pc = "returned"
        => \A n \in BlockNames, b1 \in BlockBodies, b2 \in BlockBodies :
               body = BlocksDocument(n, b1, n, b2)
                   => /\ classes[1].constraints = <<SVConstraint(n, b2)>>
                      /\ result[1].statistics.constraints = 1

(***************************************************************************)
(* sv_to_pyvsc_console.py: ConsoleRunner.run.  The commands of the steps   *)
(* are run by subprocesses: their status and the files they write are      *)
(* arbitrary, and the command lines handed to them are not part of the     *)
(* state.  Paths are kept as names of files.                               *)
(***************************************************************************)
\* what the programs around the translator leave alone, and what it is
\* where there is no translator
translator ==
    <<body, statements, lines, review, enum_value_map, enum_class_names, fields, warnings,
      classes, mapping_notes, statistics, result, caller, input_file, output_path,
      output_file, stdout, stderr, expected, previous, set_order>>
TranslatorInit ==
    /\ body = <<>>
    /\ statements = <<>>
    /\ lines = <<>>
    /\ review = <<>>
    /\ enum_value_map = <<>>
    /\ enum_class_names = {}
    /\ fields = <<>>
    /\ warnings = <<>>
    /\ classes = <<>>
    /\ mapping_notes = <<>>
    /\ statistics = <<>>
    /\ result = None
    /\ caller = "main"
    /\ input_file = None
    /\ output_path = <<>>
    /\ output_file = None
    /\ stdout = <<>>
    /\ stderr = <<>>
    /\ expected = None
    /\ previous = None
    /\ set_order = <<>>

STEP_NAMES ==
    [n \in {0, 1, 2, 3} |->
        CASE n = 0 -> "XML -> SV Conversion"
          [] n = 1 -> "SV -> PyVSC Translation"
          [] n = 2 -> "PyVSC Randomization Test"
          [] n = 3 -> "Test Vector Generation"]

StepResult(step_num, success, skipped, error_msg) ==
    [step_num |-> step_num, name |-> STEP_NAMES[step_num], success |-> success,
     skipped |-> skipped, error_msg |-> error_msg]

\* sorted(set(int(s) for s in args.step)) of a set of steps
RECURSIVE SortedSteps(_)
SortedSteps(S) ==
    IF S = {} THEN <<>>
    ELSE LET least == CHOOSE n \in S : \A o \in S : n <= o
         IN <<least>> \o SortedSteps(S \ {least})

\* ConsoleRunner.steps for the values that main lets --step have; `all`
\* gives the four steps
StepSelections == {SortedSteps(S) : S \in SUBSET DOMAIN STEP_NAMES \ {{}}}

\* the paths that _resolve_input_file derives from the input file
input_file_path ==
    IF input_type = "XML" THEN "input.xml" ELSE IF input_type = "SV" THEN "input.sv" ELSE ""
sv_file_path ==
    IF input_type = "XML" THEN "Output/input.sv"
    ELSE IF input_type = "SV" THEN "input.sv" ELSE ""
output_py_path == IF input_type = "N/A" THEN "" ELSE "Output/input.py"
converter == "XML_to_sv_Converter.py"

\* os.path.exists
exists(path) == path \in files

\* the files that may exist when the runner of input type t starts
PipelineFiles(t) ==
    {"hw_field.txt", converter}
    \cup (IF t = "XML" THEN {"input.xml", "Output/input.sv", "Output/input.py"}
          ELSE IF t = "SV" THEN {"input.sv", "Output/input.py"} ELSE {})

\* a runner as __init__ leaves it, run about to be called
InitConsole ==
    /\ pc = "run"
    /\ steps \in StepSelections
    /\ step_results = <<>>
    /\ called = <<>>
    /\ input_type \in {"XML", "SV", "N/A"}
    /\ files \in SUBSET PipelineFiles(input_type)
    /\ hw_field_path \in {"", "hw_field.txt"}
    /\ pyvsc_class_name \in {"", "Pkt"}
    /\ exit_code = None
    /\ TranslatorInit
    /\ NoOverriding
    /\ NoGenerating

\* _detect_class_name once the files written are there: the name of the
\* first class of the SV file, or the empty string
Detected(written) ==
    IF sv_file_path \in files \cup written THEN {"", "Pkt"} ELSE {""}

\* as if no result stopped the pipeline
NeverStops(res) == FALSE

\* `if not result.success and not result.skipped`
StopsPipeline(res) == ~res.success /\ ~res.skipped

\* the results appended for the steps behind step_num when the pipeline stops
RECURSIVE Remaining(_, _)
Remaining(selected, step_num) ==
    IF selected = <<>> THEN <<>>
    ELSE (IF Head(selected) > step_num
          THEN <<StepResult(Head(selected), TRUE, TRUE, "")>> ELSE <<>>)
         \o Remaining(Tail(selected), step_num)

\* the step that the loop of run is at
NextStep == steps[Len(called) + 1]

\* the body of the loop of run behind the call of the runner, and the end of
\* the loop
Recorded(res) ==
    /\ called' = Append(called, res.step_num)
    /\ step_results' =
           Append(step_results, res)
           \o (IF StopsPipeline(res) THEN Remaining(steps, res.step_num) ELSE <<>>)
    /\ pc' = IF StopsPipeline(res) \/ Len(called) + 1 = Len(steps) THEN "summary"
             ELSE "loop"

\* _run_command and what follows it in the runner of a step: the command
\* ends with success or not and may have written its output files; a
\* runner that detects the class name does so after a success
Commanded(step_num, outputs, detects) ==
    \E success \in BOOLEAN, written \in SUBSET outputs :
        /\ files' = files \cup written
        /\ \E detected \in Detected(written) :
               pyvsc_class_name' =
                   IF detects /\ success /\ detected # "" THEN detected
                   ELSE pyvsc_class_name
        /\ Recorded(StepResult(step_num, success, FALSE, ""))

\* a runner that returns before it runs a command
ReturnedEarly(res) == Recorded(res) /\ UNCHANGED <<files, pyvsc_class_name>>

\* run up to its loop: the banner, the summary of the configuration and
\* _validate_hw_fields, which reads and logs
ValidateHwFields ==
    /\ pc = "run"
    /\ pc' = "loop"
    /\ UNCHANGED <<console, exit_code, translator, overriding, generating>>

\* a turn of the loop of run at step 0: _run_step_0_xml_to_sv
RunStep0XmlToSv ==
    /\ pc = "loop"
    /\ NextStep = 0
    /\ IF input_type # "XML" THEN ReturnedEarly(StepResult(0, TRUE, TRUE, ""))
       ELSE IF ~exists(input_file_path)
       THEN ReturnedEarly(StepResult(0, FALSE, FALSE, "XML file not found"))
       ELSE IF ~exists(converter)
       THEN ReturnedEarly(StepResult(0, FALSE, FALSE, "Converter script missing"))
       ELSE Commanded(0, {sv_file_path}, TRUE)
    /\ UNCHANGED <<steps, input_type, hw_field_path, exit_code, translator, overriding, generating>>

\* a turn of the loop of run at step 1: _run_step_1_translate
RunStep1Translate ==
    /\ pc = "loop"
    /\ NextStep = 1
    /\ IF ~exists(sv_file_path)
       THEN ReturnedEarly(StepResult(1, FALSE, FALSE, "SV file not found"))
       ELSE Commanded(1, {output_py_path}, TRUE)
    /\ UNCHANGED <<steps, input_type, hw_field_path, exit_code, translator, overriding, generating>>

\* a turn of the loop of run at step 2: _run_step_2_test
RunStep2Test ==
    /\ pc = "loop"
    /\ NextStep = 2
    /\ IF ~exists(output_py_path)
       THEN ReturnedEarly(StepResult(2, FALSE, FALSE, "PyVSC file missing"))
       ELSE Commanded(2, {}, FALSE)
    /\ UNCHANGED <<steps, input_type, hw_field_path, exit_code, translator, overriding, generating>>

\* a turn of the loop of run at step 3: _run_step_3_generate
RunStep3Generate ==
    /\ pc = "loop"
    /\ NextStep = 3
    /\ IF ~exists(output_py_path)
       THEN ReturnedEarly(StepResult(3, FALSE, FALSE, "PyVSC file missing"))
       ELSE IF hw_field_path = "" \/ ~exists(hw_field_path)
       THEN ReturnedEarly(StepResult(3, TRUE, TRUE, ""))
       ELSE IF pyvsc_class_name = "" THEN ReturnedEarly(StepResult(3, TRUE, TRUE, ""))
       ELSE Commanded(3, {}, FALSE)
    /\ UNCHANGED <<steps, input_type, hw_field_path, exit_code, translator, overriding, generating>>

\* run behind its loop: the summary table, _save_console_config unless
\* --no-save, which may write the configuration file, the return of run and
\* sys.exit of main with what run returns
ReturnStatus ==
    /\ pc = "summary"
    /\ \E saved \in BOOLEAN :
           files' = IF saved THEN files \cup {"console_config.json"} ELSE files
    /\ exit_code' = Some(IF \E k \in 1..Len(step_results) : ~step_results[k].success
                         THEN 1 ELSE 0)
    /\ pc' = "exited"
    /\ UNCHANGED <<steps, step_results, called, input_type, hw_field_path,
                   pyvsc_class_name, translator, overriding, generating>>

NextConsole ==
    \/ ValidateHwFields
    \/ RunStep0XmlToSv
    \/ RunStep1Translate
    \/ RunStep2Test
    \/ RunStep3Generate
    \/ ReturnStatus

SpecConsole == InitConsole /\ [][NextConsole]_vars

\* a result of a step that failed: neither successful nor skipped
FailedResult(res) == ~res.success /\ ~res.skipped

\* C23: run executes the selected steps in ascending step order; once a step
\* fails (neither successful nor skipped) no later step is executed, every
\* later selected step is recorded as skipped, and run returns 1; run
\* returns 0 exactly when no executed step failed.
C23_PipelineStopsAtFailure ==
    LET n == Len(called)
        failed == {k \in 1..n : FailedResult(step_results[k])}
    IN /\ \A k \in 1..(Len(steps) - 1) : steps[k] < steps[k + 1]
       /\ called = SubSeq(steps, 1, n)
       /\ \A k \in 1..n : step_results[k].step_num = called[k]
       /\ failed \subseteq {n}
       /\ pc = "loop" => failed = {}
       /\ failed # {}
              => /\ [k \in 1..(Len(step_results) - n) |-> step_results[n + k].step_num]
                        = SubSeq(steps, n + 1, Len(steps))
                 /\ \A k \in (n + 1)..Len(step_results) : step_results[k].skipped
                 /\ pc = "exited" => exit_code = Some(1)
       /\ pc = "exited"
              => /\ exit_code \in {Some(0), Some(1)}
                 /\ exit_code = Some(0) <=> failed = {}
                 /\ failed = {} => called = steps

\* of the four steps the translation failed: steps 0 and 1 were executed,
\* steps 2 and 3 are recorded as skipped, and the status is 1
C23_TranslationFailed ==
    /\ pc = "exited"
    /\ steps = <<0, 1, 2, 3>>
    /\ called = <<0, 1>>
    /\ FailedResult(step_results[2])
    /\ Len(step_results) = 4
    /\ step_results[3].skipped /\ step_results[4].skipped
    /\ exit_code = Some(1)

(***************************************************************************)
(* param_override.py: patch_vector_with_overrides                          *)
(***************************************************************************)
\* the values of Python that a vector holds: an int, a str, a float (kept
\* as its tenths) and None
PyInt(n) == [int |-> n]
PyStr(s) == [str |-> s]
PyFloat(tenths) == [float |-> tenths]
PyNone == [none |-> TRUE]

TypeError == <<"TypeError", "int() argument must be a string or a real number">>

\* int(val): Some(n), or the exception it raises; a float is cut towards 0
IntOf(val) ==
    CASE DOMAIN val = {"int"} -> Some(val.int)
      [] DOMAIN val = {"str"} -> IntOfBase(val.str, 10)
      [] DOMAIN val = {"float"} ->
            Some(IF val.float >= 0 THEN val.float \div 10 ELSE -((-val.float) \div 10))
      [] DOMAIN val = {"none"} -> TypeError

OverrideSpec(name, normal_value, orig_min, orig_max, override_min, override_max, test_constraints) ==
    [name |-> name, normal_value |-> normal_value, orig_min |-> orig_min,
     orig_max |-> orig_max, override_min |-> override_min,
     override_max |-> override_max, test_constraints |-> test_constraints]

is_overridden(spec) ==
    spec.override_min # spec.orig_min \/ spec.override_max # spec.orig_max

\* the body of the loop of patch_vector_with_overrides for one entry
PatchedEntry(vec, spec) ==
    LET Clamped(val) ==
            IF IsRaised(val) THEN vec
            ELSE [vec EXCEPT ![spec.name] =
                      PyInt(Max(spec.override_min, Min(spec.override_max, val[1])))]
    IN IF spec.name \in DOMAIN vec /\ is_overridden(spec)
       THEN Clamped(IntOf(vec[spec.name]))
       ELSE vec

RECURSIVE PatchedFrom(_, _)
PatchedFrom(vec, specs) ==
    IF specs = <<>> THEN vec ELSE PatchedFrom(PatchedEntry(vec, Head(specs)), Tail(specs))

\* patched is a copy of the vector, and the loop writes to the copy
patch_vector_with_overrides(vec, specs) == PatchedFrom(vec, specs)

\* patch_vector_with_overrides(vector, overrides)
PatchVector ==
    /\ pc = "patch"
    /\ patched' = patch_vector_with_overrides(vector, overrides)
    /\ pc' = "patched"
    /\ UNCHANGED <<vector, overrides, sv_file, bak_file, backup, linesep, sv_lines,
                   out_lines, counts, console, exit_code, translator,
                   generating>>

\* the names of the fields of the vectors and of the overrides
VectorFields == {<<"a">>, <<"b">>}

VectorValues ==
    {PyInt(-4), PyInt(3), PyInt(12), PyStr(<<"7">>), PyStr(<<"a","b","c">>), PyFloat(37), PyNone}

\* the vectors: some of the fields, each with a value
Vectors == UNION {[D -> VectorValues] : D \in SUBSET VectorFields}

\* the override bounds of an entry whose original bounds are 0 and 10: the
\* original ones, a range inside, a range below, and bounds given in the
\* wrong order, which load_overrides reads as they are
OverrideBounds == {<<0, 10>>, <<2, 5>>, <<-8, -6>>, <<5, 2>>}

Override(name, bounds) == OverrideSpec(name, 5, 0, 10, bounds[1], bounds[2], <<>>)

\* the dicts of overrides: entries for some of the fields, in either order
OverrideDicts ==
    {<<>>}
    \cup {<<Override(n, b)>> : n \in VectorFields, b \in OverrideBounds}
    \cup {<<Override(names[1], b1), Override(names[2], b2)>> :
             names \in {pair \in VectorFields \X VectorFields : pair[1] # pair[2]},
             b1 \in OverrideBounds, b2 \in OverrideBounds}

InitPatch ==
    /\ pc = "patch"
    /\ vector \in Vectors
    /\ overrides \in OverrideDicts
    /\ patched = <<>>
    /\ sv_file = <<>>
    /\ bak_file = <<>>
    /\ backup = FALSE
    /\ linesep = <<>>
    /\ sv_lines = <<>>
    /\ out_lines = <<>>
    /\ counts = <<>>
    /\ NoConsole
    /\ NoGenerating
    /\ exit_code = None
    /\ TranslatorInit

NextPatch == PatchVector

SpecPatch == InitPatch /\ [][NextPatch]_vars

\* the entry of the overrides for a field, if there is one
SpecOf(name) == {overrides[k] : k \in {j \in 1..Len(overrides) : overrides[j].name = name}}

\* C24: patch_vector_with_overrides returns a new vector and leaves its input
\* unchanged; in the result every field that is in the vector, has an
\* override entry with is_overridden true and a value that int() converts
\* lies within [override_min, override_max], and every other entry equals
\* the entry of the input.
C24_PatchedWithinOverrides ==
    /\ [][vector' = vector]_vars
    /\ [](pc = "patched"
            => /\ DOMAIN patched = DOMAIN vector
               /\ \A name \in DOMAIN vector :
                      IF \E spec \in SpecOf(name) :
                             is_overridden(spec) /\ ~IsRaised(IntOf(vector[name]))
                      THEN \A spec \in SpecOf(name) :
                               /\ DOMAIN patched[name] = {"int"}
                               /\ spec.override_min <= patched[name].int
                               /\ patched[name].int <= spec.override_max
                      ELSE patched[name] = vector[name])

(***************************************************************************)
(* param_override.py: apply_overrides_to_sv_file.  A file is the text that *)
(* its bytes decode to; open() in text mode with the default newline       *)
(* translates the ends of the lines when it reads and when it writes.      *)
(***************************************************************************)
\* what f.readlines() works on: reading translates "\r\n" and "\r" to "\n"
ReadText(text) == replace(replace(text, <<"\r","\n">>, <<"\n">>), <<"\r">>, <<"\n">>)

\* the lines of a text, each with its "\n"
RECURSIVE readlines(_)
readlines(text) ==
    LET k == find(text, <<"\n">>, 0)
    IN IF text = <<>> THEN <<>>
       ELSE IF k = -1 THEN <<text>>
       ELSE <<Slice(text, 0, k + 1)>> \o readlines(From(text, k + 1))

\* what f.writelines(ls) leaves in the file: writing translates "\n" to
\* os.linesep
writelines(ls) == replace(Concat(ls), <<"\n">>, linesep)

\* `line[:-1] if nl else line`
WithoutNewline(line) ==
    IF endswith(line, <<"\n">>) THEN SubSeq(line, 1, Len(line) - 1) ELSE line

\* int() of the text of a group (-?\d+)
GroupInt(text) == IF text[1] = "-" THEN -int(Tail(text)) ELSE int(text)

\* line_re.match(b): None, or the groups indent, name, lo, hi and trail of
\* ^(\s*)\(\s*(\w+)\s*>=\s*(-?\d+)\s*&&\s*(?P=name)\s*<=\s*(-?\d+)\s*\)\s*;\s*(.*)$
LineMatch(b) ==
    LET indent_end == Star(b, 0, SpaceCh)
        name_start == Star(b, Lit(b, indent_end, <<"(">>), SpaceCh)
        name_end == Plus(b, name_start, WordCh)
        lo_start == Star(b, Lit(b, Star(b, name_end, SpaceCh), <<">","=">>), SpaceCh)
        lo_end == Plus(b, Opt(b, lo_start, <<"-">>), Digit)
        again == Star(b, Lit(b, Star(b, lo_end, SpaceCh), <<"&","&">>), SpaceCh)
        again_end == IF again = -1 THEN -1 ELSE Lit(b, again, Slice(b, name_start, name_end))
        hi_start == Star(b, Lit(b, Star(b, again_end, SpaceCh), <<"<","=">>), SpaceCh)
        hi_end == Plus(b, Opt(b, hi_start, <<"-">>), Digit)
        semi == Lit(b, Star(b, Lit(b, Star(b, hi_end, SpaceCh), <<")">>), SpaceCh), <<";">>)
    IN IF semi = -1 \/ contains(From(b, semi), <<"\n">>) THEN None
       ELSE Some([indent |-> Slice(b, 0, indent_end),
                  name |-> Slice(b, name_start, name_end),
                  lo |-> GroupInt(Slice(b, lo_start, lo_end)),
                  hi |-> GroupInt(Slice(b, hi_start, hi_end)),
                  trail |-> From(b, Star(b, semi, SpaceCh))])

\* overrides.get(name): None, or Some(spec)
SpecFor(specs, name) ==
    LET at == {k \in 1..Len(specs) : specs[k].name = name}
    IN IF at = {} THEN None ELSE Some(specs[CHOOSE k \in at : TRUE])

\* the line written for a line that matched with the groups m and has the
\* entry spec
NewLine(m, spec, nl) ==
    m.indent \o <<"(">> \o m.name \o <<" ",">","="," ">> \o IntStr(spec.override_min) \o <<" ","&","&"," ">>
    \o m.name \o <<" ","<","="," ">> \o IntStr(spec.override_max) \o <<")",";">>
    \o (IF strip(m.trail) # <<>> THEN <<" ">> \o strip(m.trail) ELSE <<>>) \o nl

\* the body of the loop over the lines for one line: the line appended to
\* out_lines, and what is added to matched and to updated
LineRewritten(line, specs) ==
    LET nl == IF endswith(line, <<"\n">>) THEN <<"\n">> ELSE <<>>
        Overridden(m, spec) ==
            IF spec = None THEN [line |-> line, matched |-> 1, updated |-> 0]
            ELSE [line |-> NewLine(m, spec[1], nl), matched |-> 1,
                  updated |-> IF m.lo # spec[1].override_min \/ m.hi # spec[1].override_max
                              THEN 1 ELSE 0]
        Matched(m) ==
            IF m = None THEN [line |-> line, matched |-> 0, updated |-> 0]
            ELSE Overridden(m[1], SpecFor(specs, m[1].name))
    IN Matched(LineMatch(WithoutNewline(line)))

\* the loop over the lines: out_lines, matched and updated
RECURSIVE Rewritten(_, _, _)
Rewritten(ls, specs, acc) ==
    LET With(r) == [out_lines |-> Append(acc.out_lines, r.line),
                    matched |-> acc.matched + r.matched,
                    updated |-> acc.updated + r.updated]
    IN IF ls = <<>> THEN acc
       ELSE Rewritten(Tail(ls), specs, With(LineRewritten(Head(ls), specs)))

SourceNotFound == <<"FileNotFoundError", "SystemVerilog source not found">>

\* what apply_overrides_to_sv_file leaves alone
beside_apply ==
    <<vector, overrides, patched, backup, linesep, console, exit_code, translator, generating>>

\* apply_overrides_to_sv_file up to the end of its loop: the check that the
\* file exists, readlines, and the loop over the lines; counts holds matched
\* and updated
ReadSvFile ==
    /\ pc = "apply"
    /\ IF sv_file = None
       THEN /\ counts' = SourceNotFound
            /\ pc' = "raised"
            /\ UNCHANGED <<sv_lines, out_lines>>
       ELSE LET Looped(r) ==
                    /\ out_lines' = r.out_lines
                    /\ counts' = Some(<<r.matched, r.updated>>)
                    /\ pc' = IF r.updated = 0 THEN "applied"
                             ELSE IF backup THEN "backup" ELSE "write"
            IN /\ sv_lines' = readlines(ReadText(sv_file[1]))
               /\ Looped(Rewritten(readlines(ReadText(sv_file[1])), overrides,
                                   [out_lines |-> <<>>, matched |-> 0, updated |-> 0]))
    /\ UNCHANGED <<sv_file, bak_file, beside_apply>>

\* `if backup:` under `if updated > 0:`: the lines read are written to the
\* backup file, or opening it raises
WriteBackup ==
    /\ pc = "backup"
    /\ \/ /\ bak_file' = Some(writelines(sv_lines))
          /\ pc' = "write"
          /\ UNCHANGED counts
       \/ /\ counts' = Unwritable
          /\ pc' = "raised"
          /\ UNCHANGED bak_file
    /\ UNCHANGED <<sv_file, sv_lines, out_lines, beside_apply>>

\* out_lines are written to the file, or opening it raises; then the return
WriteSvFile ==
    /\ pc = "write"
    /\ \/ /\ sv_file' = Some(writelines(out_lines))
          /\ pc' = "applied"
          /\ UNCHANGED counts
       \/ /\ counts' = Unwritable
          /\ pc' = "raised"
          /\ UNCHANGED sv_file
    /\ UNCHANGED <<bak_file, sv_lines, out_lines, beside_apply>>

\* the texts of the lines of a file: a range constraint of a, one of a
\* written with other spaces and with a comment behind it, a declaration, a
\* range constraint of b, and a constraint without its semicolon
LineTexts ==
    {<<" "," ","(","a"," ",">","="," ","0"," ","&","&"," ","a"," ","<","="," ","9",")",";">>, <<"("," ","a",">","=","1","&","&","a","<","=","5"," ",")"," ",";"," "," ","/","/"," ","k"," "," ">>, <<"i","n","t"," ","x",";">>,
     <<"(","b"," ",">","="," ","-","2"," ","&","&"," ","b"," ","<","="," ","3",")",";">>, <<"(","a"," ",">","="," ","0"," ","&","&"," ","a"," ","<","="," ","9",")">>}

\* files of two lines, with the line ends of Unix or of Windows, the last
\* line with or without its end
SvTexts ==
    {l1 \o e1 \o l2 \o e2 :
        l1 \in LineTexts, e1 \in {<<"\n">>, <<"\r","\n">>},
        l2 \in LineTexts, e2 \in {<<"\n">>, <<"\r","\n">>, <<>>}}

\* the override CSV has rows for none of the names, for a, for b, or for both
SvOverrides ==
    {<<>>,
     <<OverrideSpec(<<"a">>, 5, 0, 9, 1, 5, <<>>)>>,
     <<OverrideSpec(<<"a">>, 5, 0, 9, 0, 9, <<>>)>>,
     <<OverrideSpec(<<"b">>, 0, -2, 3, -1, 3, <<>>)>>,
     <<OverrideSpec(<<"a">>, 5, 0, 9, 1, 5, <<>>), OverrideSpec(<<"b">>, 0, -2, 3, -2, 3, <<>>)>>}

InitApply ==
    /\ pc = "apply"
    /\ sv_file \in {None} \cup {Some(text) : text \in SvTexts}
    /\ bak_file \in {None, Some(<<"o","l","d","\n">>)}
    /\ overrides \in SvOverrides
    /\ backup \in BOOLEAN
    /\ linesep \in {<<"\n">>, <<"\r","\n">>}
    /\ sv_lines = <<>>
    /\ out_lines = <<>>
    /\ counts = None
    /\ vector = <<>>
    /\ patched = <<>>
    /\ NoConsole
    /\ NoGenerating
    /\ exit_code = None
    /\ TranslatorInit

NextApply == ReadSvFile \/ WriteBackup \/ WriteSvFile

SpecApply == InitApply /\ [][NextApply]_vars

\* a line of a file that has the shape of a range constraint whose name has
\* an entry in the overrides
HasOverride(line) ==
    LET Named(m) == m # None /\ SpecFor(overrides, m[1].name) # None
    IN Named(LineMatch(WithoutNewline(line)))

\* C25: apply_overrides_to_sv_file rewrites the SV file only when updated > 0;
\* then, with backup enabled, the original content is in <sv_path>.bak before
\* the SV file is overwritten; when updated = 0 neither file is written; the
\* counts returned satisfy 0 <= updated <= matched; and lines that do not
\* match the shape of a range constraint, or whose name has no override, are
\* copied unchanged.
C25_RewritesOnlyWhenUpdated ==
    /\ [][(sv_file' # sv_file \/ bak_file' # bak_file)
              => (counts # None /\ ~IsRaised(counts) /\ counts[1][2] > 0)]_vars
    /\ [][(sv_file' # sv_file /\ backup) => (bak_file = sv_file)]_vars
    /\ [](pc = "applied" => (0 <= counts[1][2] /\ counts[1][2] <= counts[1][1]))
    /\ [][(sv_file' # sv_file)
              => (\A k \in 1..Len(readlines(sv_file[1])) :
                      ~HasOverride(readlines(sv_file[1])[k])
                          => /\ k <= Len(readlines(sv_file'[1]))
                             /\ readlines(sv_file'[1])[k] = readlines(sv_file[1])[k])]_vars

(***************************************************************************)
(* Statements that begin with `if (`                                       *)
(***************************************************************************)
\* the conditions: a bare field, or a comparison of a field with a number
IfConditions == {<<"bare", <<"e","n","a","b","l","e">>, <<>>, 0>>, <<"cmp", <<"w","i","d","t","h">>, <<"=","=">>, 1>>}

\* the statements of a branch: a comparison, an implication, an inside, a
\* distribution, and an implication with an inside behind it
BranchStatements ==
    {<<"x"," ","=","="," ","1",";">>, <<"e","n"," ","-",">"," ","y"," ","=","="," ","2",";">>, <<"x"," ","i","n","s","i","d","e"," ","{","1",","," ","2","}",";">>,
     <<"x"," ","d","i","s","t"," ","{","1"," ",":","="," ","2",","," ","3"," ",":","="," ","4","}",";">>, <<"e","n"," ","-",">"," ","x"," ","i","n","s","i","d","e"," ","{","1",","," ","2","}",";">>}

\* how the statement is written: on one line, on several lines, without
\* braces, or with an else branch
IfLayouts == {"one line", "lines", "bare", "else"}

IfStatement(c, b, layout) ==
    <<"i","f"," ","(">> \o OperandSource(c) \o <<")">> \o
    (CASE layout = "one line" -> <<" ","{"," ">> \o b \o <<" ","}">>
       [] layout = "lines" -> <<" ","{","\n"," "," "," "," ">> \o b \o <<"\n","}">>
       [] layout = "bare" -> <<" ">> \o b
       [] layout = "else" -> <<" ","{","\n"," "," "," "," ","x"," ","=","="," ","1",";","\n","}"," ","e","l","s","e"," ","{"," ">> \o b \o <<" ","}">>)

IfStatements ==
    {IfStatement(c, b, layout) : c \in IfConditions, b \in BranchStatements, layout \in IfLayouts}

InitIf == Start(IfStatements)

NextIf == TranslateStatement \/ TranslateConstraintBody

SpecIf == InitIf /\ [][NextIf]_vars

\* C26: a statement of a constraint body that begins with `if (` is handled
\* by the parser of conditional chains, whatever its branches hold
\* (implication, inside, dist) and whether or not it is written on one line:
\* no matcher before _try_conditional claims it, and the first line emitted is
\* the wrapper with vsc.if_then(<condition>): of its condition.
C26_IfHandledByConditionalParser ==
    \A c \in IfConditions, b \in BranchStatements, layout \in IfLayouts :
        (body = IfStatement(c, b, layout) /\ pc \in {"translated", "body translated"})
        => /\ lines # <<>>
           /\ lines[1] = <<"w","i","t","h"," ","v","s","c",".","i","f","_","t","h","e","n","(">> \o OperandTarget(c) \o <<")",":">>

(***************************************************************************)
(* Statements of several lines in the branch of a conditional              *)
(***************************************************************************)
\* statements whose translation has several lines: an implication, an
\* implication with an inside, a distribution and a foreach
SeveralLineStatements ==
    {<<"e","n"," ","-",">"," ","y"," ","=","="," ","2",";">>, <<"e","n"," ","-",">"," ","x"," ","i","n","s","i","d","e"," ","{","1",","," ","2","}",";">>, <<"x"," ","d","i","s","t"," ","{","1"," ",":","="," ","2",","," ","3"," ",":","="," ","4","}",";">>,
     <<"f","o","r","e","a","c","h"," ","(","a","r","r","[","i","]",")"," ","{"," ","a","r","r","[","i","]"," ","<"," ","5",";"," ","}">>}

\* and statements whose translation has one line
OneLineStatements == {<<"x"," ","=","="," ","1",";">>, <<"x"," ","i","n","s","i","d","e"," ","{","1",","," ","2","}",";">>}

\* the branch the statement stands in: the branch of the if, of an else if,
\* or of the else
Branches == {"if", "else if", "else"}

Conditional(c, s, branch) ==
    CASE branch = "if" -> <<"i","f"," ","(">> \o OperandSource(c) \o <<")"," ","{","\n"," "," "," "," ">> \o s \o <<"\n","}">>
      [] branch = "else if" ->
             <<"i","f"," ","(","m","o","d","e"," ","=","="," ","0",")"," ","{","\n"," "," "," "," ","z"," ","=","="," ","0",";","\n","}"," ","e","l","s","e"," ","i","f"," ","(">> \o OperandSource(c)
             \o <<")"," ","{","\n"," "," "," "," ">> \o s \o <<"\n","}">>
      [] branch = "else" ->
             <<"i","f"," ","(">> \o OperandSource(c) \o <<")"," ","{","\n"," "," "," "," ","z"," ","=","="," ","0",";","\n","}"," ","e","l","s","e"," ","{","\n"," "," "," "," ">> \o s \o <<"\n","}">>

\* the statements alone, and in each branch of a conditional
BranchBodies ==
    SeveralLineStatements \cup OneLineStatements
    \cup {Conditional(c, s, branch) :
              c \in IfConditions, s \in SeveralLineStatements \cup OneLineStatements,
              branch \in Branches}

InitBranch == Start(BranchBodies)

NextBranch == TranslateStatement \/ TranslateConstraintBody

SpecBranch == InitBranch /\ [][NextBranch]_vars

\* the lines top, as the last lines of ls, each one indentation level deeper
EndsWithDeeper(ls, top) ==
    /\ Len(ls) > Len(top)
    /\ \A j \in 1..Len(top) : ls[Len(ls) - Len(top) + j] = <<" "," "," "," ">> \o top[j]

\* C27: in the branch of a conditional a statement whose translation has
\* several lines (implication, implication with inside, distribution,
\* foreach) keeps its structure: its lines are those of the statement
\* translated at top level, each one level deeper, so that the opening line
\* is one level below the wrapper of the conditional and every continuation
\* line stays deeper than the opening line.
C27_BranchKeepsIndentation ==
    \A c \in IfConditions, s \in SeveralLineStatements, branch \in Branches :
        (body = Conditional(c, s, branch) /\ pc \in {"translated", "body translated"})
        => EndsWithDeeper(lines, _translate_statement(s, <<>>).lines)

\* the warning of _validate_generated_code for a constraint without its
\* method
MissingConstraint(name) == <<"C","o","n","s","t","r","a","i","n","t"," ","'">> \o name \o <<"'"," ","m","i","s","s","i","n","g"," ","f","r","o","m"," ","g","e","n","e","r","a","t","e","d"," ","c","o","d","e">>

\* warnings has the warning w
Warned(wn, w) == \E k \in 1..Len(wn) : wn[k] = w

\* C28: every constraint block extracted from a class appears in the
\* generated class as a constraint method of the same name, so that the
\* validation after the generation never reports an extracted constraint as
\* missing from the generated code, and the constraints statistic equals the
\* number of extracted blocks.
C28_EveryBlockHasItsMethod ==
    pc = "returned"
        => /\ \A k \in 1..Len(classes[1].constraints) :
                  /\ contains(result[1].pyvsc_code,
                              <<" "," "," "," ","d","e","f"," ">> \o classes[1].constraints[k].name \o <<"(","s","e","l","f",")",":","\n">>)
                  /\ ~Warned(result[1].warnings,
                             MissingConstraint(classes[1].constraints[k].name))
           /\ result[1].statistics.constraints = Len(classes[1].constraints)

(***************************************************************************)
(* What _split_statements keeps of a body                                  *)
(***************************************************************************)
\* pieces of bodies: a statement, the head of a conditional, the keywords
\* and brackets the scan counts, and a name that ends in a keyword
SplitPieces ==
    {<<"a"," ","=","="," ","1",";">>, <<"i","f"," ","(","a",")"," ">>, <<"b","e","g","i","n"," ">>, <<"e","n","d">>, <<"{"," ">>, <<"}">>, <<"e","l","s","e"," ">>,
     <<";">>, <<" ">>, <<"(">>, <<")">>, <<"x","_","e","n","d">>}

SplitBodies == TextsOf(SplitPieces, MaxPieces)

InitSplit == Start(SplitBodies)

NextSplit == SplitStatements

SpecSplit == InitSplit /\ [][NextSplit]_vars

\* text, from position i on, is the statements ss in their order with
\* nothing but white space before, between and behind them
RECURSIVE Covers(_, _, _)
Covers(text, i, ss) ==
    LET Behind(j) ==
            IF ss = <<>> THEN j = Len(text)
            ELSE /\ HasAt(text, j, Head(ss))
                 /\ Covers(text, j + Len(Head(ss)), Tail(ss))
    IN Behind(i + Span(text, i, SpaceCh))

\* C29: splitting loses nothing: the statements returned, in their order,
\* are the body with only white space at the edges of the statements
\* removed; every statement returned is non-empty; and what is accumulated
\* when braces, parentheses or begin/end are left open at the end of the
\* input is returned as a last statement.
C29_SplittingLosesNothing ==
    pc = "split"
        => /\ Covers(body, 0, statements)
           /\ \A k \in 1..Len(statements) :
                  statements[k] # <<>> /\ strip(statements[k]) = statements[k]

\* a body whose brace is left open is returned as one statement
C29_OpenBraceFlushed ==
    /\ pc = "split"
    /\ body = <<"i","f"," ","(","a",")"," ","{"," ","a"," ","=","="," ","1",";">>
    /\ statements = <<<<"i","f"," ","(","a",")"," ","{"," ","a"," ","=","="," ","1",";">>>>

(***************************************************************************)
(* generate_test_vectors.py: the parallel branch of main.  The pool hands  *)
(* the entries of worker_args to its workers in their order, a worker      *)
(* working on one entry at a time; imap_unordered gives main the results   *)
(* in the order in which the workers return them.  Times are not kept.     *)
(***************************************************************************)
\* the most runs of a generation
MaxRuns == 3

\* fields of main: one field
pool_field == <<"a">>

\* the vectors a worker may return: the value that randomize() gave the field
WorkerVectors == {(pool_field :> PyInt(3)), (pool_field :> PyInt(12))}

\* what _randomize_worker returns, and what stands for it when it raises
WorkerResult(run_id, vec, failed) ==
    [run_id |-> run_id, vector |-> vec, failed |-> failed, raised |-> FALSE]
WorkerRaised(run_id) ==
    [run_id |-> run_id, vector |-> <<>>, failed |-> TRUE, raised |-> TRUE]

\* a worker of the pool that is free takes the next entry of worker_args
TakeTask ==
    /\ pc = "pool"
    /\ worker_args # <<>>
    /\ Cardinality(running) < num_jobs
    /\ running' = running \cup {Head(worker_args)}
    /\ worker_args' = Tail(worker_args)
    /\ UNCHANGED <<num_runs, num_jobs, format, top_overrides, outqueue, returned, vectors,
                   successful, field_stats, txt_files, console, overriding, exit_code,
                   translator, pc>>

\* _randomize_worker returns in a worker: randomize() may have failed, the
\* vector holds what the fields of the object hold
RandomizeWorker ==
    /\ pc = "pool"
    /\ \E run_id \in running, vec \in WorkerVectors, failed \in BOOLEAN :
           /\ running' = running \ {run_id}
           /\ outqueue' = Append(outqueue, WorkerResult(run_id, vec, failed))
           /\ returned' = [returned EXCEPT ![run_id + 1] = Some(vec)]
    /\ UNCHANGED <<num_runs, num_jobs, format, top_overrides, worker_args, vectors,
                   successful, field_stats, txt_files, console, overriding, exit_code,
                   translator, pc>>

\* _randomize_worker raises in a worker (the module is not importable
\* there): the pool passes the exception on in place of the result
RandomizeWorkerRaises ==
    /\ pc = "pool"
    /\ \E run_id \in running :
           /\ running' = running \ {run_id}
           /\ outqueue' = Append(outqueue, WorkerRaised(run_id))
    /\ UNCHANGED <<num_runs, num_jobs, format, top_overrides, worker_args, returned,
                   vectors, successful, field_stats, txt_files, console, overriding,
                   exit_code, translator, pc>>

\* the post-clamp of main for the vector of a worker
PostClamped(vec) ==
    IF top_overrides # <<>> THEN patch_vector_with_overrides(vec, top_overrides) ELSE vec

\* vectors[run_id] = vector, in arrival order instead of by run id
StoredInArrivalOrder(vs, run_id, vec) ==
    [vs EXCEPT ![CHOOSE k \in 1..Len(vs) : vs[k] = None /\ \A j \in 1..(k - 1) : vs[j] # None]
                   = Some(vec)]

\* vectors[run_id] = vector
Stored(vs, run_id, vec) == [vs EXCEPT ![run_id + 1] = Some(vec)]

\* the body of the loop over pool.imap_unordered for one result, and the
\* end of the loop behind the last result; a result that is an exception is
\* raised in main
Receive ==
    /\ pc = "pool"
    /\ outqueue # <<>>
    /\ outqueue' = Tail(outqueue)
    /\ IF Head(outqueue).raised
       THEN /\ pc' = "raised"
            /\ exit_code' = Some(1)
            /\ UNCHANGED <<vectors, successful, field_stats>>
       ELSE /\ vectors' = Stored(vectors, Head(outqueue).run_id,
                                 PostClamped(Head(outqueue).vector))
            /\ successful' = successful + (IF Head(outqueue).failed THEN 0 ELSE 1)
            /\ field_stats' = Append(field_stats,
                                      PostClamped(Head(outqueue).vector)[pool_field])
            /\ pc' = IF Len(field_stats) + 1 < num_runs THEN "pool"
                     ELSE IF format \in {"txt", "both"} THEN "write" ELSE "generated"
            /\ UNCHANGED exit_code
    /\ UNCHANGED <<num_runs, num_jobs, format, top_overrides, worker_args, running, returned,
                   txt_files, console, overriding, translator>>

\* str() of a value of a vector
PyText(val) == IF DOMAIN val = {"int"} THEN IntStr(val.int) ELSE val.str

\* the lines write_test_vector_file writes; the time of the second line is
\* left out
TestVectorLines(vec, run_id) ==
    <<<<"#"," ","T","e","s","t"," ","V","e","c","t","o","r"," ","C","o","n","f","i","g","u","r","a","t","i","o","n"," ","-"," ","R","u","n"," ">> \o IntStr(run_id), <<"#"," ","G","e","n","e","r","a","t","e","d",":"," ">>, <<"#">>,
      pool_field \o <<" ">> \o PyText(vec[pool_field])>>

\* write_test_vector_file for the next entry of enumerate(vectors), and the
\* end of the loop behind the last; opening the file may fail, and a slot
\* that holds None has no items
WriteTestVectorFile ==
    /\ pc = "write"
    /\ \/ /\ vectors[Len(txt_files) + 1] # None
          /\ txt_files' = Append(txt_files,
                                 TestVectorLines(vectors[Len(txt_files) + 1][1], Len(txt_files)))
          /\ pc' = IF Len(txt_files) + 1 < num_runs THEN "write" ELSE "generated"
          /\ UNCHANGED exit_code
       \/ /\ pc' = "raised"
          /\ exit_code' = Some(1)
          /\ UNCHANGED txt_files
    /\ UNCHANGED <<num_runs, num_jobs, format, top_overrides, worker_args, running, outqueue,
                   returned, vectors, successful, field_stats, console, overriding,
                   translator>>

\* the overrides of --top-params: none, or a range for the field
TopOverrides == {<<>>, <<Override(pool_field, <<2, 5>>)>>}

InitPool ==
    /\ pc = "pool"
    /\ num_runs \in 2..MaxRuns
    /\ num_jobs \in 2..num_runs
    /\ format \in {"txt", "csv", "both"}
    /\ top_overrides \in TopOverrides
    /\ worker_args = [k \in 1..num_runs |-> k - 1]
    /\ running = {}
    /\ outqueue = <<>>
    /\ returned = [k \in 1..num_runs |-> None]
    /\ vectors = [k \in 1..num_runs |-> None]
    /\ successful = 0
    /\ field_stats = <<>>
    /\ txt_files = <<>>
    /\ NoConsole
    /\ NoOverriding
    /\ exit_code = None
    /\ TranslatorInit

NextPool ==
    \/ TakeTask
    \/ RandomizeWorker
    \/ RandomizeWorkerRaises
    \/ Receive
    \/ WriteTestVectorFile

SpecPool == InitPool /\ [][NextPool]_vars

\* main has received the results of all runs
Drained == pc # "pool" /\ Len(field_stats) = num_runs

\* C30: in the parallel generation, in whatever order the workers return,
\* once the pool has drained every slot vectors[i], i in 0..num_runs-1,
\* holds the vector of run i (as the post-clamp of main leaves it); every
\* result received fills one slot that was empty, so that each slot is
\* written once and none is left empty; and the files of the runs are
\* written only after all results have been collected, file i holding
\* vector i.
C30_SlotHoldsVectorOfItsRun ==
    /\ [](Drained => \A k \in 1..num_runs :
                         /\ returned[k] # None
                         /\ vectors[k] = Some(PostClamped(returned[k][1])))
    /\ [][(vectors' # vectors)
              => \E k \in 1..num_runs :
                     /\ vectors[k] = None
                     /\ vectors'[k] # None
                     /\ \A j \in 1..num_runs : j # k => vectors'[j] = vectors[j]]_vars
    /\ [][(txt_files' # txt_files) => Drained]_vars
    /\ [](\A k \in 1..Len(txt_files) :
              txt_files[k] = TestVectorLines(PostClamped(returned[k][1]), k - 1))

\* the result of run 1 was received before that of run 0, with another
\* value, and the files of both runs are written
C30_LaterRunReceivedFirst ==
    /\ pc = "generated"
    /\ num_runs = 2
    /\ top_overrides = <<>>
    /\ returned = <<Some((pool_field :> PyInt(3))), Some((pool_field :> PyInt(12)))>>
    /\ field_stats = <<PyInt(12), PyInt(3)>>
    /\ vectors = returned
    /\ Len(txt_files) = 2
    /\ txt_files[2][4] = <<"a"," ","1","2">>


(***************************************************************************)
(* Nested conditionals                                                     *)
(***************************************************************************)
\* the deepest nesting of the statements below
MaxNesting == 3

\* the condition of the if at each level, bare or compared with a number
NestedCondition(kind, level) ==
    IF kind = "bare" THEN <<"bare", <<<<"a", "b", "c", "d">>[level]>>, <<>>, 0>>
    ELSE <<"cmp", <<<<"a", "b", "c", "d">>[level]>>, <<"=","=">>, 1>>

\* the three ways a body is written
BodyStyles == {"braces", "begin/end", "inline"}

\* the body of the innermost if: none, a comparison, an inside
InnermostBodies == {<<>>, <<"x"," ","=","="," ","1",";">>, <<"x"," ","i","n","s","i","d","e"," ","{","1",","," ","2","}",";">>}

\* what the innermost body is to become: the placeholder for an empty body
InnermostTarget(inner) ==
    IF inner = <<>> THEN <<"p","a","s","s">>
    ELSE IF inner = <<"x"," ","=","="," ","1",";">> THEN <<"s","e","l","f",".","x"," ","=","="," ","1">>
    ELSE <<"s","e","l","f",".","x"," ","i","n"," ","v","s","c",".","r","a","n","g","e","l","i","s","t","(","1",","," ","2",")">>

\* the ifs of the levels from level to n around the body inner
RECURSIVE NestedIf(_, _, _, _, _)
NestedIf(n, style, inner, kind, level) ==
    IF level > n THEN inner
    ELSE LET Inside(b) ==
                 <<"i","f"," ","(">> \o OperandSource(NestedCondition(kind, level)) \o <<")">>
                 \o (IF style = "braces" THEN <<" ","{">> ELSE IF style = "begin/end" THEN <<" ","b","e","g","i","n">>
                     ELSE <<>>)
                 \o (IF b = <<>> THEN <<>> ELSE <<" ">> \o b)
                 \o (IF style = "braces" THEN <<" ","}">> ELSE IF style = "begin/end" THEN <<" ","e","n","d">>
                     ELSE <<>>)
         IN Inside(NestedIf(n, style, inner, kind, level + 1))

NestedStatements ==
    {NestedIf(n, style, inner, kind, 1) :
        n \in 1..MaxNesting, style \in BodyStyles, inner \in InnermostBodies,
        kind \in {"bare", "cmp"}}

InitNested == Start(NestedStatements)

NextNested == TranslateStatement \/ TranslateConstraintBody

SpecNested == InitNested /\ [][NextNested]_vars

\* the indentation of n levels
RECURSIVE Indentation(_)
Indentation(n) == IF n = 0 THEN <<>> ELSE INDENT \o Indentation(n - 1)

\* the n wrappers, each one level deeper than the one before, and the body
\* of the innermost one level deeper than it
NestedTarget(n, inner, kind) ==
    [level \in 1..(n + 1) |->
        IF level <= n
        THEN Indentation(level - 1) \o <<"w","i","t","h"," ","v","s","c",".","i","f","_","t","h","e","n","(">>
             \o OperandTarget(NestedCondition(kind, level)) \o <<")",":">>
        ELSE Indentation(n) \o InnermostTarget(inner)]

\* C2: for an input with N levels of nested `if`, in any of the three body
\* styles (braces, begin/end, inline), the output has exactly N nested
\* wrappers with vsc.if_then(...), each indented one level (4 spaces) deeper
\* than its parent, and the innermost wrapper has a body that is not empty:
\* the translated body, or `pass` where the source body was empty.
C2_NestedWrappersPerLevel ==
    \A n \in 1..MaxNesting, style \in BodyStyles, inner \in InnermostBodies,
       kind \in {"bare", "cmp"} :
        (body = NestedIf(n, style, inner, kind, 1) /\ pc \in {"translated", "body translated"})
        => lines = NestedTarget(n, inner, kind)

(***************************************************************************)
(* Solve-order statements among the statements of a constraint body        *)
(***************************************************************************)
\* the most statements of a body below
MaxStatements == 2

\* the statements: two solve-order statements, a comparison, an inside, an
\* implication, and a conditional with a solve-order statement in its branch
SolvePieces ==
    {<<"s","o","l","v","e"," ","a"," ","b","e","f","o","r","e"," ","b",";">>, <<"s","o","l","v","e"," "," ","m","o","d","e","\t","b","e","f","o","r","e"," ","l","e","n",";">>, <<"x"," ","=","="," ","1",";">>,
     <<"l","e","n"," ","i","n","s","i","d","e"," ","{","[","1",":","4","]",","," ","8","}",";">>, <<"e","n"," ","-",">"," ","y"," ","=","="," ","2",";">>,
     <<"i","f"," ","(","m",")"," ","{"," ","x"," ","=","="," ","2",";"," ","s","o","l","v","e"," ","l","e","n"," ","b","e","f","o","r","e"," ","a",";"," ","}">>}

SolveBodies ==
    {join(<<" ">>, ps) : ps \in UNION {[1..n -> SolvePieces] : n \in 1..MaxStatements}}

InitSolve == Start(SolveBodies)

NextSolve == TranslateConstraintBody \/ SplitStatements

SpecSolve == InitSolve /\ [][NextSolve]_vars

\* C3: in the lines returned for one constraint body every solve-order line
\* (vsc.solve_order(...)) stands before every other line, wherever the
\* `solve ... before ...` statements stood in the source body.
C3_SolveOrderLinesFirst ==
    pc = "body translated"
        => \A i, j \in 1..Len(lines) :
               (i < j /\ contains(lines[j], <<"v","s","c",".","s","o","l","v","e","_","o","r","d","e","r","(">>))
               => contains(lines[i], <<"v","s","c",".","s","o","l","v","e","_","o","r","d","e","r","(">>)

\* a solve-order statement behind a comparison: its line comes first
C3_SolveBehindComparison ==
    /\ pc = "body translated"
    /\ body = <<"x"," ","=","="," ","1",";"," ","s","o","l","v","e"," ","a"," ","b","e","f","o","r","e"," ","b",";">>
    /\ lines = <<<<"v","s","c",".","s","o","l","v","e","_","o","r","d","e","r","(","s","e","l","f",".","a",","," ","s","e","l","f",".","b",")">>, <<"s","e","l","f",".","x"," ","=","="," ","1">>>>

(***************************************************************************)
(* Conditional chains: if, else if, else                                   *)
(***************************************************************************)
\* the most `else if` branches of a chain below
MaxElseIf == 2

\* the condition and the statement of each branch of a chain, as the source
\* writes them and as the output is to show them
ChainConditions == <<<<"a"," ","=","="," ","1">>, <<"b"," ","=","="," ","2">>, <<"c"," ","=","="," ","3">>>>
ChainConditionTargets == <<<<"s","e","l","f",".","a"," ","=","="," ","1">>, <<"s","e","l","f",".","b"," ","=","="," ","2">>, <<"s","e","l","f",".","c"," ","=","="," ","3">>>>
ChainBodies == <<<<"x"," ","=","="," ","1",";">>, <<"y"," ","=","="," ","2",";">>, <<"z"," ","=","="," ","3",";">>, <<"w"," ","=","="," ","4",";">>>>
ChainBodyTargets == <<<<"s","e","l","f",".","x"," ","=","="," ","1">>, <<"s","e","l","f",".","y"," ","=","="," ","2">>, <<"s","e","l","f",".","z"," ","=","="," ","3">>, <<"s","e","l","f",".","w"," ","=","="," ","4">>>>

\* a branch body in one of the three styles
StyledBody(style, b) ==
    IF style = "braces" THEN <<" ","{"," ">> \o b \o <<" ","}">>
    ELSE IF style = "begin/end" THEN <<" ","b","e","g","i","n"," ">> \o b \o <<" ","e","n","d">>
    ELSE <<" ">> \o b

\* the else if branches j..k of a chain
RECURSIVE ElseIfs(_, _, _)
ElseIfs(j, k, style) ==
    IF j > k THEN <<>>
    ELSE <<" ","e","l","s","e"," ","i","f"," ","(">> \o ChainConditions[j + 1] \o <<")">> \o StyledBody(style, ChainBodies[j + 1])
         \o ElseIfs(j + 1, k, style)

\* a chain with k else if branches, with or without an else
Chain(k, has_else, style) ==
    <<"i","f"," ","(">> \o ChainConditions[1] \o <<")">> \o StyledBody(style, ChainBodies[1])
    \o ElseIfs(1, k, style)
    \o (IF has_else THEN <<" ","e","l","s","e">> \o StyledBody(style, ChainBodies[k + 2]) ELSE <<>>)

\* where the chain stands: as a statement of the constraint body, or in the
\* braces of an enclosing if
Placements == {"statement", "enclosed"}

PlacedChain(k, has_else, style, placement) ==
    IF placement = "statement" THEN Chain(k, has_else, style)
    ELSE <<"i","f"," ","(","p",")"," ","{"," ">> \o Chain(k, has_else, style) \o <<" ","}">>

ChainStatements ==
    {PlacedChain(k, has_else, style, placement) :
        k \in 0..MaxElseIf, has_else \in BOOLEAN, style \in BodyStyles,
        placement \in Placements}

InitChain == Start(ChainStatements)

NextChain == TranslateStatement \/ TranslateConstraintBody

SpecChain == InitChain /\ [][NextChain]_vars

\* the else_if wrappers j..k with their bodies
RECURSIVE ElseIfTargets(_, _)
ElseIfTargets(j, k) ==
    IF j > k THEN <<>>
    ELSE <<<<"w","i","t","h"," ","v","s","c",".","e","l","s","e","_","i","f","(">> \o ChainConditionTargets[j + 1] \o <<")",":">>,
           INDENT \o ChainBodyTargets[j + 1]>>
         \o ElseIfTargets(j + 1, k)

\* the wrappers of the chain in the order of the source, each with its body
ChainTarget(k, has_else) ==
    <<<<"w","i","t","h"," ","v","s","c",".","i","f","_","t","h","e","n","(">> \o ChainConditionTargets[1] \o <<")",":">>,
      INDENT \o ChainBodyTargets[1]>>
    \o ElseIfTargets(1, k)
    \o (IF has_else THEN <<<<"w","i","t","h"," ","v","s","c",".","e","l","s","e","_","t","h","e","n",":">>, INDENT \o ChainBodyTargets[k + 2]>>
        ELSE <<>>)

PlacedChainTarget(k, has_else, placement) ==
    IF placement = "statement" THEN ChainTarget(k, has_else)
    ELSE <<<<"w","i","t","h"," ","v","s","c",".","i","f","_","t","h","e","n","(","(","s","e","l","f",".","p"," ","!","="," ","0",")",")",":">>>> \o Indented(ChainTarget(k, has_else), INDENT)

\* C4: for a chain of one `if`, k >= 0 `else if` branches and an optional
\* `else`, the translation has exactly one vsc.if_then wrapper first, then
\* the k vsc.else_if wrappers in source order, each with its own rewritten
\* condition, then the vsc.else_then wrapper last if and only if the source
\* has an `else`: no branch is dropped or reordered, whichever body style
\* the branches use.
C4_ChainBranchesInOrder ==
    \A k \in 0..MaxElseIf, has_else \in BOOLEAN, style \in BodyStyles,
       placement \in Placements :
        (body = PlacedChain(k, has_else, style, placement)
         /\ pc \in {"translated", "body translated"})
        => lines = PlacedChainTarget(k, has_else, placement)

(***************************************************************************)
(* Conditionals whose decomposition fails                                  *)
(***************************************************************************)
\* the conditions: a bare field, a comparison, a negated field
UnmatchedConditions ==
    {<<"bare", <<"a">>, <<>>, 0>>, <<"cmp", <<"w">>, <<"=","=">>, 1>>, <<"not", <<"e","n">>, <<>>, 0>>}

\* the statement of the branch that is left open
UnmatchedBodies == {<<"x"," ","=","="," ","1",";">>, <<"x"," ","i","n","s","i","d","e"," ","{","1",","," ","2","}",";">>}

\* what is left unmatched: the parenthesis of the condition, the brace or
\* the begin of the if branch, and the same in a later branch of the chain
Unmatched == {"paren", "brace", "begin", "else brace", "else if paren", "else begin"}

UnmatchedConditional(kind, c, b) ==
    CASE kind = "paren" -> <<"i","f"," ","(">> \o OperandSource(c) \o <<" ","{"," ">> \o b \o <<" ","}">>
      [] kind = "brace" -> <<"i","f"," ","(">> \o OperandSource(c) \o <<")"," ","{"," ">> \o b
      [] kind = "begin" -> <<"i","f"," ","(">> \o OperandSource(c) \o <<")"," ","b","e","g","i","n"," ">> \o b
      [] kind = "else brace" ->
             <<"i","f"," ","(">> \o OperandSource(c) \o <<")"," ","{"," ","y"," ","=","="," ","2",";"," ","}"," ","e","l","s","e"," ","{"," ">> \o b
      [] kind = "else if paren" ->
             <<"i","f"," ","(","m",")"," ","{"," ","y"," ","=","="," ","2",";"," ","}"," ","e","l","s","e"," ","i","f"," ","(">> \o OperandSource(c) \o <<" ","{"," ">> \o b \o <<" ","}">>
      [] kind = "else begin" ->
             <<"i","f"," ","(">> \o OperandSource(c) \o <<")"," ","b","e","g","i","n"," ","y"," ","=","="," ","2",";"," ","e","n","d"," ","e","l","s","e"," ","b","e","g","i","n"," ">> \o b

UnmatchedStatements ==
    {UnmatchedConditional(kind, c, b) :
        kind \in Unmatched, c \in UnmatchedConditions, b \in UnmatchedBodies}

InitUnmatched == Start(UnmatchedStatements)

NextUnmatched == TranslateStatement \/ TranslateConstraintBody

SpecUnmatched == InitUnmatched /\ [][NextUnmatched]_vars

\* the statement as comment lines behind the heading, and the placeholder
CommentedOut(stmt) ==
    <<<<"#"," ","T","O","D","O",":"," ","C","o","m","p","l","e","x"," ","c","o","n","d","i","t","i","o","n","a","l"," ","-"," ","m","a","n","u","a","l"," ","t","r","a","n","s","l","a","t","i","o","n"," ","n","e","e","d","e","d">>>>
    \o CommentLines(split(stmt, <<"\n">>)) \o <<<<"p","a","s","s">>>>

\* C5: whenever the decomposition of a statement that starts with `if (`
\* fails (an unmatched parenthesis, brace or begin/end), the whole
\* conditional statement is emitted verbatim as commented lines followed by
\* the placeholder `pass`, and a manual-review item is recorded for it.
C5_FailedConditionalCommentedOut ==
    \A kind \in Unmatched, c \in UnmatchedConditions, b \in UnmatchedBodies :
        (body = UnmatchedConditional(kind, c, b)
         /\ pc \in {"translated", "body translated"})
        => /\ lines = CommentedOut(strip(rstripSemi(body)))
           /\ review # <<>>

(***************************************************************************)
(* Constraint blocks of any text                                           *)
(***************************************************************************)
\* pieces of a body: nothing, a lone semicolon, a comparison, a conditional
\* with its brace left open, a conditional with its parenthesis left open, a
\* foreach without statements, an implication without operands, an inside
\* without items
BlockPieces ==
    {<<>>, <<";">>, <<"x"," ","=","="," ","1",";">>, <<"i","f"," ","(","a",")"," ","{"," ","y"," ","=","="," ","2",";">>, <<"i","f"," ","(","a"," ","{"," ","}">>,
     <<"f","o","r","e","a","c","h"," ","(","a","r","r","[","i","]",")"," ","{"," ","}">>, <<"-",">"," ",";">>, <<"x"," ","i","n","s","i","d","e"," ","{"," ","}",";">>}

BlockTexts == {first \o <<" ">> \o second : first, second \in BlockPieces}

InitBlock == Start(BlockTexts)

NextBlock == GenerateConstraint \/ TranslateConstraintBody

SpecBlock == InitBlock /\ [][NextBlock]_vars

\* the review items have the item
HasReviewItem(rv, item) == \E k \in 1..Len(rv) : rv[k] = item

\* C6: for any constraint body text the translation of the constraint block
\* ends without an exception and gives a constraint method whose body is
\* not empty: translated lines, or the placeholder `pass` together with a
\* manual-review item.
C6_EveryBlockGivesAMethodBody ==
    /\ ~_generate_constraint(constraint_name, body, <<>>, <<>>).exc
    /\ pc = "generated"
           => /\ Len(lines) >= 3
              /\ lines[1] = INDENT \o <<"@","v","s","c",".","c","o","n","s","t","r","a","i","n","t">>
              /\ lines[2] = INDENT \o <<"d","e","f"," ">> \o constraint_name \o <<"(","s","e","l","f",")",":">>
              /\ \A k \in 3..Len(lines) :
                     startswith(lines[k], INDENT \o INDENT) /\ strip(lines[k]) # <<>>
              /\ startswith(strip(lines[3]), <<"p","a","s","s">>)
                     => HasReviewItem(review, <<"C","o","n","s","t","r","a","i","n","t"," ","'","c","1","'"," ","r","e","q","u","i","r","e","s"," ","m","a","n","u","a","l"," ","t","r","a","n","s","l","a","t","i","o","n">>)

\* a conditional that cannot be decomposed is the whole body: the method
\* holds the placeholder, and the review item is recorded
C6_PlaceholderForFailedConditional ==
    /\ pc = "generated"
    /\ body = <<" ","i","f"," ","(","a",")"," ","{"," ","y"," ","=","="," ","2",";">>
    /\ lines = <<INDENT \o <<"@","v","s","c",".","c","o","n","s","t","r","a","i","n","t">>, INDENT \o <<"d","e","f"," ","c","1","(","s","e","l","f",")",":">>,
                 INDENT \o INDENT \o <<"p","a","s","s"," "," ","#"," ","T","O","D","O",":"," ","M","a","n","u","a","l"," ","t","r","a","n","s","l","a","t","i","o","n"," ","r","e","q","u","i","r","e","d">>>>
    /\ HasReviewItem(review, <<"C","o","n","s","t","r","a","i","n","t"," ","'","c","1","'"," ","r","e","q","u","i","r","e","s"," ","m","a","n","u","a","l"," ","t","r","a","n","s","l","a","t","i","o","n">>)

(***************************************************************************)
(* Implications whose consequent is an inside                              *)
(***************************************************************************)
\* the antecedents: a bare field, a comparison, a field in parentheses, a
\* negated field, an inside and a negated inside
Antecedents ==
    {<<"e","n">>, <<"a"," ","=","="," ","1">>, <<"(","a",")">>, <<"!","e","n">>, <<"m","o","d","e"," ","i","n","s","i","d","e"," ","{","1",","," ","2","}">>, <<"!","(","m"," ","i","n","s","i","d","e"," ","{","3","}",")">>}

\* the fields of the consequent
ConsequentFields == {<<"x">>, <<"y">>}

\* the items between the braces of the consequent
ConsequentItems == {<<"1",","," ","2">>, <<"[","0",":","1","0","]">>, <<"[","1",":","2","]",","," ","5">>}

ImplInside(A, v, items) == A \o <<" ","-",">"," ">> \o v \o <<" ","i","n","s","i","d","e"," ","{">> \o items \o <<"}",";">>

ImplInsideStatements ==
    {ImplInside(A, v, items) : A \in Antecedents, v \in ConsequentFields, items \in ConsequentItems}

InitImplInside == Start(ImplInsideStatements)

NextImplInside == TranslateStatement \/ TranslateConstraintBody

SpecImplInside == InitImplInside /\ [][NextImplInside]_vars

\* the lines are an implies wrapper and the one line of its body
ImpliesWrapper(ls, body_line) ==
    /\ Len(ls) = 2
    /\ startswith(ls[1], <<"w","i","t","h"," ","v","s","c",".","i","m","p","l","i","e","s","(">>)
    /\ endswith(ls[1], <<")",":">>)
    /\ ls[2] = INDENT \o body_line

\* C7: a statement is translated by the first matcher of the fixed order
\* that recognises it, and that result is its whole translation; in
\* particular `A -> v inside {...}` is emitted as an implies wrapper whose
\* body line is `self.v in vsc.rangelist(...)`.
C7_ImplicationWithInsideIsWrapped ==
    \A A \in Antecedents, v \in ConsequentFields, items \in ConsequentItems :
        (body = ImplInside(A, v, items) /\ pc \in {"translated", "body translated"})
        => ImpliesWrapper(lines, <<"s","e","l","f",".">> \o v \o <<" ","i","n"," ","v","s","c",".","r","a","n","g","e","l","i","s","t","(">>
                                 \o _translate_inside(items) \o <<")">>)

(***************************************************************************)
(* Statement boundaries and what follows them                              *)
(***************************************************************************)
\* statements that end at a boundary of depth zero: comparisons `a op b;`
\* that end at the semicolon, a conditional that ends at its closing brace
\* and one that ends at its closing end
BoundaryStatements ==
    {<<"a"," ","=","="," ","1",";">>, <<"a"," ","<","="," ","b",";">>, <<"x"," ","+"," ","1"," ",">"," ","y",";">>,
     <<"i","f"," ","(","c",")"," ","{"," ","b"," ","=","="," ","1",";"," ","}">>, <<"i","f"," ","(","c",")"," ","b","e","g","i","n"," ","b"," ","=","="," ","1",";"," ","e","n","d">>}

\* what follows the boundary: the keyword else, identifiers that start with
\* the letters of else, and identifiers that do not
Followers ==
    {<<"e","l","s","e"," ","y"," ","=","="," ","2",";">>, <<"e","l","s","e","w","h","e","r","e"," ","=","="," ","2",";">>, <<"e","l","s","e","_","c","n","t"," ","=","="," ","0",";">>, <<"b"," ","=","="," ","2",";">>, <<"e","l"," ","=","="," ","2",";">>}

\* the white space between the boundary and what follows it
Separators == {<<" ">>, <<"\n">>}

BoundaryBodies ==
    {first \o sep \o follower :
        first \in BoundaryStatements, sep \in Separators, follower \in Followers}

InitBoundary == Start(BoundaryBodies)

NextBoundary == SplitStatements \/ TranslateConstraintBody

SpecBoundary == InitBoundary /\ [][NextBoundary]_vars

\* the text starts with the keyword else: the letters of else with no
\* identifier character behind them
KeywordElse(s) ==
    /\ startswith(s, kw_else)
    /\ (Len(s) = Len(kw_else) \/ At(s, Len(kw_else)) \notin WordCh)

\* C8: a boundary at nesting depth zero (a `;`, a closing `}` or a closing
\* `end`) is deferred exactly when the next token after it is the keyword
\* `else`; a statement `a op b;` that is not followed by the keyword `else`
\* ends at its semicolon and is returned as its own statement.
C8_BoundaryDeferredOnlyBeforeElse ==
    \A first \in BoundaryStatements, sep \in Separators, follower \in Followers :
        (body = first \o sep \o follower /\ pc = "split")
        => statements = IF KeywordElse(follower) THEN <<body>>
                        ELSE <<first, follower>>

(***************************************************************************)
(* Identifiers that contain begin or end                                   *)
(***************************************************************************)
\* identifiers with the letters of a keyword between letters, identifiers
\* with an underscore beside them, and one without them
KeywordLikeNames ==
    {<<"a","p","p","e","n","d">>, <<"e","n","d","x">>, <<"x","b","e","g","i","n">>, <<"b","e","g","i","n","n","e","r">>, <<"t","r","e","n","d">>, <<"m","y","_","e","n","d">>,
     <<"e","n","d","_","x">>, <<"b","e","g","i","n","_","c","n","t">>, <<"x","_","b","e","g","i","n">>, <<"s","_","e","n","d","_","t">>, <<"c">>}

\* where the identifier stands: in the first statement, in a statement
\* between two others, as the right operand, inside a begin/end block
NamePlaces == {"first", "middle", "operand", "block"}

\* the statements of the body, in source order
NamedStatements(name, place) ==
    CASE place = "first" -> <<name \o <<" ","=","="," ","1",";">>, <<"b"," ","=","="," ","2",";">>>>
      [] place = "middle" -> <<<<"a"," ","=","="," ","1",";">>, name \o <<" ","=","="," ","2",";">>, <<"b"," ","=","="," ","3",";">>>>
      [] place = "operand" -> <<<<"a"," ","=","="," ">> \o name \o <<";">>, <<"b"," ","=","="," ","2",";">>>>
      [] place = "block" ->
             <<<<"i","f"," ","(","a",")"," ","b","e","g","i","n"," ">> \o name \o <<" ","=","="," ","1",";"," ","e","n","d">>, <<"b"," ","=","="," ","2",";">>>>

NamedBody(name, place) == join(<<" ">>, NamedStatements(name, place))

NamedBodies == {NamedBody(name, place) : name \in KeywordLikeNames, place \in NamePlaces}

InitKeywordLike == Start(NamedBodies)

NextKeywordLike == SplitStatements \/ TranslateConstraintBody

SpecKeywordLike == InitKeywordLike /\ [][NextKeywordLike]_vars

\* C9: the statement splitter changes its begin/end depth only at the whole
\* keywords `begin` and `end`: an identifier that contains `begin` or `end`
\* as a substring, with an underscore or another identifier character on
\* either side, never changes the depth, so it never suppresses or creates a
\* statement boundary.
C9_OnlyWholeKeywordsChangeDepth ==
    \A name \in KeywordLikeNames, place \in NamePlaces :
        (body = NamedBody(name, place) /\ pc = "split")
        => statements = NamedStatements(name, place)

(***************************************************************************)
(* The items of an inside                                                  *)
(***************************************************************************)
MaxItems == 3

\* values as the source writes them and as Python literals: decimal numbers
\* and a sized hexadecimal literal
SetValues == {<<<<"0">>, <<"0">>>>, <<<<"1">>, <<"1">>>>, <<<<"2">>, <<"2">>>>, <<<<"8","'","h","F","F">>, <<"0","x","F","F">>>>}

\* the bounds of the bracketed items
SetRanges ==
    {<<<<<<"0">>, <<"0">>>>, <<<<"1","0">>, <<"1","0">>>>>>,
     <<<<<<"8","'","h","0","0">>, <<"0","x","0","0">>>>, <<<<"8","'","h","0","F">>, <<"0","x","0","F">>>>>>}

\* the items: bare values and bracketed ranges
SetItems ==
    {<<"bare", v>> : v \in SetValues} \cup {<<"range", r[1], r[2]>> : r \in SetRanges}

\* the field that is constrained
SetFields == {<<"m","o","d","e">>}

ItemLists == UNION {[1..n -> SetItems] : n \in 1..MaxItems}

\* an item in the source
ItemSource(item) ==
    IF item[1] = "bare" THEN item[2][1]
    ELSE <<"[">> \o item[2][1] \o <<":">> \o item[3][1] \o <<"]">>

\* the argument that keeps the text of the source: the value itself, and
\* vsc.rng around the two bounds
ItemUnchanged(item) ==
    IF item[1] = "bare" THEN item[2][1]
    ELSE <<"v","s","c",".","r","n","g","(">> \o item[2][1] \o <<","," ">> \o item[3][1] \o <<")">>

\* the argument with its values as Python literals
ItemTarget(item) ==
    IF item[1] = "bare" THEN item[2][2]
    ELSE <<"v","s","c",".","r","n","g","(">> \o item[2][2] \o <<","," ">> \o item[3][2] \o <<")">>

InsideStatement(v, items) ==
    v \o <<" ","i","n","s","i","d","e"," ","{">> \o join(<<","," ">>, [k \in 1..Len(items) |-> ItemSource(items[k])]) \o <<"}",";">>

InsideStatements == {InsideStatement(v, items) : v \in SetFields, items \in ItemLists}

InitInside == Start(InsideStatements)

NextInside == TranslateStatement \/ TranslateConstraintBody

SpecInside == InitInside /\ [][NextInside]_vars

\* the one line `self.v in vsc.rangelist(...)` with the arguments
RangelistLine(v, args) ==
    <<<<"s","e","l","f",".">> \o v \o <<" ","i","n"," ","v","s","c",".","r","a","n","g","e","l","i","s","t","(">> \o join(<<","," ">>, args) \o <<")">>>>

\* C10: translating `x inside {i1, ..., in}` yields
\* `self.x in vsc.rangelist(a1, ..., an)` with exactly one argument per
\* source item in the same order, where a bare value passes through
\* unchanged and a bracketed item `[lo:hi]` becomes `vsc.rng(lo, hi)`.
C10_ItemsPassThrough ==
    \A v \in SetFields, items \in ItemLists :
        (body = InsideStatement(v, items) /\ pc \in {"translated", "body translated"})
        => lines = RangelistLine(v, [k \in 1..Len(items) |-> ItemUnchanged(items[k])])

\* C10, amended: one argument per source item in the same order, a bare
\* value and the bounds of a bracketed item `[lo:hi]` being written as
\* Python literals (a decimal number stays as it is, a sized literal such as
\* 8'hFF becomes 0xFF), and the bracketed item becoming `vsc.rng(lo, hi)`.
C10_ItemsAsPythonLiterals ==
    \A v \in SetFields, items \in ItemLists :
        (body = InsideStatement(v, items) /\ pc \in {"translated", "body translated"})
        => lines = RangelistLine(v, [k \in 1..Len(items) |-> ItemTarget(items[k])])

\* a sized literal and a range translated
C10_SizedLiteralAndRange ==
    /\ pc = "translated"
    /\ body = <<"m","o","d","e"," ","i","n","s","i","d","e"," ","{","8","'","h","F","F",","," ","[","0",":","1","0","]","}",";">>
    /\ lines = <<<<"s","e","l","f",".","m","o","d","e"," ","i","n"," ","v","s","c",".","r","a","n","g","e","l","i","s","t","(","0","x","F","F",","," ","v","s","c",".","r","n","g","(","0",","," ","1","0",")",")">>>>

=========================================================================
